---- MODULE Spec2Model ----
(***************************************************************************)
(* A model of the AWS Documentation MCP server: the query-correlation      *)
(* cache (server_utils.py) and the three tools read_documentation,         *)
(* search_documentation and recommend (server_aws.py).                     *)
(*                                                                         *)
(* Python strings are sequences of one-character strings, so that prefix   *)
(* and suffix tests, comparison and percent-encoding are computed          *)
(* character by character.  Python's None is the model value None.         *)
(***************************************************************************)
EXTENDS Naturals, Sequences, FiniteSets, TLC

VARIABLES
    SEARCH_RESULT_CACHE,  \* the deque of batches, front (index 1) first
    inserted,             \* ghost of the cache specification: the batches given
                          \* to add_search_result_cache_item by direct calls,
                          \* oldest first
    lastLookup,           \* ghost: the direct get_query_id_from_cache call made
                          \* on the current cache, [url, result]
    SESSION_UUID,         \* server_aws.SESSION_UUID, set when the module loads
    inv                   \* the tool invocation each task is running: its
                          \* arguments, its position, its locals, and what it
                          \* has sent, reported and returned so far

vars == <<SEARCH_RESULT_CACHE, inserted, lastLookup, SESSION_UUID, inv>>

\* Python's None: a one-element sequence that no Python string equals, since
\* the elements of a string are single characters.
None == <<"None">>

(***************************************************************************)
(* Strings.                                                                *)
(***************************************************************************)
StartsWith(s, p) == Len(s) >= Len(p) /\ SubSeq(s, 1, Len(p)) = p

EndsWith(s, p) == Len(s) >= Len(p) /\ SubSeq(s, Len(s) - Len(p) + 1, Len(s)) = p

Chars(s) == {s[i] : i \in 1..Len(s)}

Min(a, b) == IF a <= b THEN a ELSE b

(***************************************************************************)
(* urllib.parse.quote(string) with its default safe='/': the unreserved    *)
(* characters and '/' are kept, every other character becomes %XX.         *)
(***************************************************************************)
ALWAYS_SAFE ==
    {"A","B","C","D","E","F","G","H","I","J","K","L","M",
     "N","O","P","Q","R","S","T","U","V","W","X","Y","Z",
     "a","b","c","d","e","f","g","h","i","j","k","l","m",
     "n","o","p","q","r","s","t","u","v","w","x","y","z",
     "0","1","2","3","4","5","6","7","8","9","_",".","-","~"}

QuoteSafe == ALWAYS_SAFE \cup {"/"}

PercentCode(c) ==
    CASE c = " " -> <<"%","2","0">>
      [] c = "#" -> <<"%","2","3">>
      [] c = "%" -> <<"%","2","5">>
      [] c = "&" -> <<"%","2","6">>
      [] c = "+" -> <<"%","2","B">>
      [] c = ":" -> <<"%","3","A">>
      [] c = "=" -> <<"%","3","D">>
      [] c = "?" -> <<"%","3","F">>

\* Variant: nothing is encoded.
quote_identity(s) == s

RECURSIVE quote(_)
quote(s) ==
    IF s = <<>> THEN <<>>
    ELSE (IF Head(s) \in QuoteSafe THEN <<Head(s)>> ELSE PercentCode(Head(s)))
         \o quote(Tail(s))

(***************************************************************************)
(* models.SearchResult                                                     *)
(***************************************************************************)
SearchResult(rank_order, url, title, query_id, context) ==
    [rank_order |-> rank_order, url |-> url, title |-> title,
     query_id |-> query_id, context |-> context]

(***************************************************************************)
(* SEARCH_RESULT_CACHE = deque(maxlen=3)                                   *)
(***************************************************************************)
CACHE_MAXLEN == 3

\* Variant: a full deque discards its front item instead of its back one.
appendleft_keep_oldest(dq, item) ==
    IF Len(dq) >= CACHE_MAXLEN THEN <<item>> \o Tail(dq) ELSE <<item>> \o dq

\* Variant: a deque without maxlen.
appendleft_unbounded(dq, item) == <<item>> \o dq

\* deque.appendleft on a bounded deque: the new item goes to the front and,
\* when the deque was full, the item at the back is discarded.
appendleft(dq, item) ==
    IF Len(dq) >= CACHE_MAXLEN
    THEN <<item>> \o SubSeq(dq, 1, CACHE_MAXLEN - 1)
    ELSE <<item>> \o dq

\* Variant: deque.append, the new batch goes to the back and a full deque
\* discards its front item.
add_search_result_cache_item_append(cache, search_results) ==
    IF Len(cache) >= CACHE_MAXLEN
    THEN Tail(cache) \o <<search_results>>
    ELSE cache \o <<search_results>>

add_search_result_cache_item(cache, search_results) ==
    appendleft(cache, search_results)

\* Variant: the last result of the batch with this url decides.
RECURSIVE ScanBatch_last(_, _)
ScanBatch_last(search_results, url) ==
    IF search_results = <<>> THEN None
    ELSE IF search_results[Len(search_results)].url = url
         THEN quote(search_results[Len(search_results)].query_id)
         ELSE ScanBatch_last(SubSeq(search_results, 1, Len(search_results) - 1), url)

\* The inner loop: the first result of the batch whose url is `url`.
RECURSIVE ScanBatch(_, _)
ScanBatch(search_results, url) ==
    IF search_results = <<>> THEN None
    ELSE IF Head(search_results).url = url
         THEN quote(Head(search_results).query_id)
         ELSE ScanBatch(Tail(search_results), url)

\* Variant: the batches are scanned from the back of the deque.
RECURSIVE get_query_id_oldest_first(_, _)
get_query_id_oldest_first(cache, url) ==
    IF cache = <<>> THEN None
    ELSE LET r == ScanBatch(cache[Len(cache)], url)
         IN  IF r # None THEN r
             ELSE get_query_id_oldest_first(SubSeq(cache, 1, Len(cache) - 1), url)

\* The outer loop: batches from the front of the deque to its back.
RECURSIVE get_query_id_from_cache(_, _)
get_query_id_from_cache(cache, url) ==
    IF cache = <<>> THEN None
    ELSE LET r == ScanBatch(Head(cache), url)
         IN  IF r # None THEN r
             ELSE get_query_id_from_cache(Tail(cache), url)

(***************************************************************************)
(* The strings the inputs are drawn from.                                  *)
(***************************************************************************)
HTTP == <<"h","t","t","p",":","/","/">>

HTTPS == <<"h","t","t","p","s",":","/","/">>

DOCS_HOST == <<"d","o","c","s",".","a","w","s",".","a","m","a","z","o","n",".","c","o","m">>

DOT_HTML == <<".","h","t","m","l">>

\* https://docs.aws.amazon.com/a.html, .../b.html, .../c.html, .../A.html
URL_A == HTTPS \o DOCS_HOST \o <<"/","a">> \o DOT_HTML

URL_B == HTTPS \o DOCS_HOST \o <<"/","b">> \o DOT_HTML

URL_C == HTTP \o DOCS_HOST \o <<"/","c">> \o DOT_HTML

URL_A_UPPER == HTTPS \o DOCS_HOST \o <<"/","A">> \o DOT_HTML

\* The query identifiers: 'query-1', 'q2', 'a&b=1 ?' and the empty string.
QID_1 == <<"q","u","e","r","y","-","1">>

QID_2 == <<"q","2">>

QID_UNSAFE == <<"a","&","b","=","1"," ","?">>

QID_EMPTY == <<>>

TITLE == <<"t">>

\* A batch as a search produces it: one result per url, all with the
\* search's query id, ranked by position.
MkBatch(urls, query_id) ==
    [i \in 1..Len(urls) |-> SearchResult(i, urls[i], TITLE, query_id, None)]

(***************************************************************************)
(* Tool invocations.  The host runs the tools as coroutines of one event   *)
(* loop: an invocation runs without interruption from one suspension       *)
(* point (an awaited network call) to the next.                            *)
(***************************************************************************)
Tasks == {"t1", "t2"}

NoRequest ==
    [method |-> "none", url |-> <<>>, user_agent |-> "", session_header |-> None,
     body |-> <<>>]

NoException == [type |-> "none", message |-> <<>>]

NoData == [absent |-> TRUE]

NoAnswer == [kind |-> "none"]

\* pc: idle, then get / post (the request is in flight), close (the search's
\* client is closing), and returned or raised when the invocation has ended.
\* response: what the awaited request gave, the exception e or the response.
Idle ==
    [tool |-> "none", pc |-> "idle",
     url |-> <<>>, max_length |-> 0, start_index |-> 0, limit |-> 0,
     query_id |-> None, response |-> NoAnswer, data |-> NoData,
     request |-> NoRequest, sent |-> 0, lookups |-> 0,
     errors |-> <<>>, result |-> <<>>, exception |-> NoException]

(***************************************************************************)
(* The cache specification: direct calls of add_search_result_cache_item   *)
(* and get_query_id_from_cache, as the cache's tests make them.            *)
(***************************************************************************)
MaxInserts == 5

CacheBatches ==
    { <<>>,
      MkBatch(<<URL_A>>, QID_1),
      MkBatch(<<URL_A, URL_B>>, QID_2),
      MkBatch(<<URL_C, URL_A_UPPER>>, QID_UNSAFE),
      MkBatch(<<URL_B>>, QID_EMPTY),
      \* the same url twice in one batch, with different query ids
      <<SearchResult(1, URL_C, TITLE, QID_1, None),
        SearchResult(2, URL_C, TITLE, QID_2, None)>> }

LookupUrls == {URL_A, URL_B, URL_C, URL_A_UPPER}

NoLookup == [url |-> None, result |-> None]

\* The cache's tests load server_utils only: no session token exists and no
\* tool runs.
CacheInit ==
    /\ SEARCH_RESULT_CACHE = <<>>
    /\ inserted = <<>>
    /\ lastLookup = NoLookup
    /\ SESSION_UUID = None
    /\ inv = [t \in Tasks |-> Idle]

CacheAdd(search_results) ==
    /\ Len(inserted) < MaxInserts
    /\ SEARCH_RESULT_CACHE' =
           add_search_result_cache_item(SEARCH_RESULT_CACHE, search_results)
    /\ inserted' = Append(inserted, search_results)
    /\ lastLookup' = NoLookup
    /\ UNCHANGED <<SESSION_UUID, inv>>

\* Variant: a hit moves the matching batch to the front of the deque.
CacheLookup_promoting(url) ==
    LET hits == {i \in 1..Len(SEARCH_RESULT_CACHE) :
                    \E j \in 1..Len(SEARCH_RESULT_CACHE[i]) :
                        SEARCH_RESULT_CACHE[i][j].url = url}
    IN  /\ lastLookup' =
               [url |-> url, result |-> get_query_id_from_cache(SEARCH_RESULT_CACHE, url)]
        /\ SEARCH_RESULT_CACHE' =
               IF hits = {} THEN SEARCH_RESULT_CACHE
               ELSE LET i == CHOOSE i \in hits : \A k \in hits : i <= k
                    IN  <<SEARCH_RESULT_CACHE[i]>>
                        \o SubSeq(SEARCH_RESULT_CACHE, 1, i - 1)
                        \o SubSeq(SEARCH_RESULT_CACHE, i + 1, Len(SEARCH_RESULT_CACHE))
        /\ UNCHANGED <<inserted, SESSION_UUID, inv>>

CacheLookup(url) ==
    /\ lastLookup' =
           [url |-> url, result |-> get_query_id_from_cache(SEARCH_RESULT_CACHE, url)]
    /\ UNCHANGED <<SEARCH_RESULT_CACHE, inserted, SESSION_UUID, inv>>

CacheNext ==
    \/ \E b \in CacheBatches : CacheAdd(b)
    \/ \E u \in LookupUrls : CacheLookup(u)

SpecCache == CacheInit /\ [][CacheNext]_vars

(***************************************************************************)
(* Properties of the cache.                                                *)
(***************************************************************************)
\* The indices of `inserted` whose batches are the 3 most recently inserted.
Recent == {k \in 1..Len(inserted) : k > Len(inserted) - 3}

BatchHasUrl(batch, url) == \E j \in 1..Len(batch) : batch[j].url = url

\* The query id, as stored, of the first result of `batch` with this url.
FirstIdIn(batch, url) ==
    LET j == CHOOSE j \in 1..Len(batch) :
                 /\ batch[j].url = url
                 /\ \A k \in 1..(j - 1) : batch[k].url # url
    IN  batch[j].query_id

\* The positions <<i, j>> of the cache whose result has this url.
Matches(cache, url) ==
    {p \in UNION {{<<i, j>> : j \in 1..Len(cache[i])} : i \in 1..Len(cache)} :
        cache[p[1]][p[2]].url = url}

Before(p, q) == p[1] < q[1] \/ (p[1] = q[1] /\ p[2] < q[2])

\* The stored query id the reference scan decides on: that of the match
\* with no match before it.
ReferenceId(cache, url) ==
    LET p == CHOOSE p \in Matches(cache, url) :
                 \A q \in Matches(cache, url) : ~Before(q, p)
    IN  cache[p[1]][p[2]].query_id

HexDigits == {"0","1","2","3","4","5","6","7","8","9","A","B","C","D","E","F"}

\* Percent-decoding, the inverse the receiving service applies.
RECURSIVE Unquote(_)
Unquote(s) ==
    IF s = <<>> THEN <<>>
    ELSE IF Head(s) = "%" /\ Len(s) >= 3
         THEN LET code == SubSeq(s, 1, 3)
                  c == CHOOSE c \in {" ","#","%","&","+",":","=","?"} :
                           PercentCode(c) = code
              IN  <<c>> \o Unquote(SubSeq(s, 4, Len(s)))
         ELSE <<Head(s)>> \o Unquote(Tail(s))

\* Characters that, raw, would end or split a query-string parameter.
UnsafeInQuery == {"&", "=", " ", "?", "#", "+", "%"}

\* C1: in every reachable state the cache holds at most 3 batches, and they
\* are the most recently inserted ones, the most recent at the front and the
\* least recent at the back.
C1_CacheBoundedAndOrdered ==
    /\ Len(SEARCH_RESULT_CACHE) <= 3
    /\ Len(SEARCH_RESULT_CACHE) = Min(3, Len(inserted))
    /\ \A i \in 1..Len(SEARCH_RESULT_CACHE) :
           SEARCH_RESULT_CACHE[i] = inserted[Len(inserted) - i + 1]

\* More than 3 distinct batches were inserted and a lookup was made after.
C1_Witness ==
    /\ Len(inserted) > 3
    /\ Cardinality({inserted[k] : k \in Recent}) = 3
    /\ inserted[1] \notin {inserted[k] : k \in Recent}
    /\ lastLookup.url # None

\* C2: after more than 3 inserts, a url is found by the lookup exactly when
\* it occurs in one of the 3 most recently inserted batches: every url of
\* those is found, and a url only of earlier batches gives None.
C2_OnlyRecentRetrievable ==
    Len(inserted) > 3 =>
        /\ \A u \in LookupUrls :
               (get_query_id_from_cache(SEARCH_RESULT_CACHE, u) # None)
                   <=> (\E k \in Recent : BatchHasUrl(inserted[k], u))
        /\ lastLookup.url # None =>
               ((lastLookup.result # None)
                   <=> (\E k \in Recent : BatchHasUrl(inserted[k], lastLookup.url)))

\* A lookup of a url of an evicted batch only gave None, and one of a url of
\* the oldest batch kept found it.
C2_Witness ==
    /\ Len(inserted) > 3
    /\ \E u \in LookupUrls :
           /\ BatchHasUrl(inserted[1], u)
           /\ \A k \in Recent : ~BatchHasUrl(inserted[k], u)
           /\ lastLookup = [url |-> u, result |-> None]

\* C3: when a url occurs in two batches the cache still holds, the lookup
\* returns the (encoded) query id of the most recently inserted batch that
\* has the url.
C3_RecencyWins ==
    \A u \in LookupUrls :
        \A k1, k2 \in Recent :
            (k1 < k2 /\ BatchHasUrl(inserted[k1], u) /\ BatchHasUrl(inserted[k2], u)) =>
                LET last == CHOOSE k \in Recent :
                                /\ BatchHasUrl(inserted[k], u)
                                /\ \A m \in Recent : BatchHasUrl(inserted[m], u) => m <= k
                    expected == quote(FirstIdIn(inserted[last], u))
                IN  /\ get_query_id_from_cache(SEARCH_RESULT_CACHE, u) = expected
                    /\ lastLookup.url = u => lastLookup.result = expected

\* The url is in an older and in a newer kept batch with different query
\* ids, and the lookup returned the newer batch's.
C3_Witness ==
    \E k1, k2 \in Recent :
        /\ k1 < k2
        /\ k2 = Len(inserted)
        /\ BatchHasUrl(inserted[k1], URL_A)
        /\ BatchHasUrl(inserted[k2], URL_A)
        /\ FirstIdIn(inserted[k1], URL_A) # FirstIdIn(inserted[k2], URL_A)
        /\ lastLookup = [url |-> URL_A, result |-> quote(FirstIdIn(inserted[k2], URL_A))]

\* C4: for every cache state, the empty one included, and every url, the
\* lookup is the reference scan: None when no stored result has exactly
\* this url, and otherwise the (encoded) query id of the match that no match
\* precedes, batches front to back and results in their order.
C4_LookupIsReferenceScan ==
    /\ \A u \in LookupUrls :
           LET r == get_query_id_from_cache(SEARCH_RESULT_CACHE, u)
           IN  IF Matches(SEARCH_RESULT_CACHE, u) = {}
               THEN r = None
               ELSE r = quote(ReferenceId(SEARCH_RESULT_CACHE, u))
    /\ lastLookup.url # None =>
           IF Matches(SEARCH_RESULT_CACHE, lastLookup.url) = {}
           THEN lastLookup.result = None
           ELSE lastLookup.result = quote(ReferenceId(SEARCH_RESULT_CACHE, lastLookup.url))

\* A lookup hit a url that one batch holds twice with different ids and an
\* older batch holds too; a url differing only in case is stored as well.
C4_Witness ==
    /\ Len(SEARCH_RESULT_CACHE) = 3
    /\ Cardinality(Matches(SEARCH_RESULT_CACHE, URL_C)) = 3
    /\ Matches(SEARCH_RESULT_CACHE, URL_A_UPPER) # {}
    /\ Len(SEARCH_RESULT_CACHE[1]) = 2
    /\ SEARCH_RESULT_CACHE[1][1].url = URL_C
    /\ SEARCH_RESULT_CACHE[1][1].query_id # SEARCH_RESULT_CACHE[1][2].query_id
    /\ lastLookup = [url |-> URL_C, result |-> quote(SEARCH_RESULT_CACHE[1][1].query_id)]

\* The lookup of an empty cache returns None.
C4_WitnessEmpty ==
    /\ SEARCH_RESULT_CACHE = <<>>
    /\ lastLookup = [url |-> URL_A, result |-> None]

\* C5: a successful lookup returns the matching result's query id in
\* percent-encoded form: it decodes to the stored id, an id of unreserved
\* characters only is returned unchanged, and no character that is unsafe in
\* a query string is returned raw.
C5_LookupPercentEncodes ==
    \A u \in LookupUrls :
        LET r == get_query_id_from_cache(SEARCH_RESULT_CACHE, u)
        IN  r # None =>
                LET id == ReferenceId(SEARCH_RESULT_CACHE, u)
                IN  /\ Unquote(r) = id
                    /\ Chars(id) \subseteq ALWAYS_SAFE => r = id
                    /\ Chars(r) \cap (UnsafeInQuery \ {"%"}) = {}
                    /\ \A i \in 1..Len(r) :
                           r[i] = "%" => /\ i + 2 <= Len(r)
                                         /\ r[i + 1] \in HexDigits
                                         /\ r[i + 2] \in HexDigits
                    /\ lastLookup.url = u => lastLookup.result = r

\* A lookup returned the id 'a&b=1 ?' as 'a%26b%3D1%20%3F'.
C5_Witness ==
    /\ lastLookup.url = URL_C
    /\ lastLookup.result =
           <<"a","%","2","6","b","%","3","D","1","%","2","0","%","3","F">>
    /\ ReferenceId(SEARCH_RESULT_CACHE, URL_C) = QID_UNSAFE

(***************************************************************************)
(* The tools (server_aws.py) and read_documentation_impl (server_utils.py).*)
(***************************************************************************)
\* The texts of the messages and of the request urls.
\* 'Invalid URL: '
S_INVALID_URL ==
    <<"I","n","v","a","l","i","d"," ","U","R","L",":"," ">>

\* '. URL must be from the docs.aws.amazon.com domain'
S_MUST_BE_DOMAIN_SENTENCE ==
    <<"."," ","U","R","L"," ","m","u","s","t"," ","b","e"," ","f","r","o","m"," ","t","h","e"," ","d","o","c","s",".","a","w","s",".","a","m","a","z","o","n",".","c","o","m"," ","d","o","m","a","i","n">>

\* 'URL must be from the docs.aws.amazon.com domain'
S_MUST_BE_DOMAIN ==
    <<"U","R","L"," ","m","u","s","t"," ","b","e"," ","f","r","o","m"," ","t","h","e"," ","d","o","c","s",".","a","w","s",".","a","m","a","z","o","n",".","c","o","m"," ","d","o","m","a","i","n">>

\* '. URL must end with .html'
S_MUST_END_HTML_SENTENCE ==
    <<"."," ","U","R","L"," ","m","u","s","t"," ","e","n","d"," ","w","i","t","h"," ",".","h","t","m","l">>

\* 'URL must end with .html'
S_MUST_END_HTML ==
    <<"U","R","L"," ","m","u","s","t"," ","e","n","d"," ","w","i","t","h"," ",".","h","t","m","l">>

\* 'Failed to fetch '
S_FAILED_TO_FETCH ==
    <<"F","a","i","l","e","d"," ","t","o"," ","f","e","t","c","h"," ">>

\* ' - status code '
S_STATUS_CODE ==
    <<" ","-"," ","s","t","a","t","u","s"," ","c","o","d","e"," ">>

\* '?session='
S_SESSION ==
    <<"?","s","e","s","s","i","o","n","=">>

\* '&query_id='
S_QUERY_ID ==
    <<"&","q","u","e","r","y","_","i","d","=">>

\* 'AWS Documentation from '
S_AWS_DOCUMENTATION_FROM ==
    <<"A","W","S"," ","D","o","c","u","m","e","n","t","a","t","i","o","n"," ","f","r","o","m"," ">>

\* '<e>Content truncated. Call the read_documentation tool with start_index='
S_CONTENT_TRUNCATED ==
    <<"<","e",">","C","o","n","t","e","n","t"," ","t","r","u","n","c","a","t","e","d","."," ","C","a","l","l"," ","t","h","e"," ","r","e","a","d","_","d","o","c","u","m","e","n","t","a","t","i","o","n"," ","t","o","o","l"," ","w","i","t","h"," ","s","t","a","r","t","_","i","n","d","e","x","=">>

\* ' to get more content.</e>'
S_TO_GET_MORE ==
    <<" ","t","o"," ","g","e","t"," ","m","o","r","e"," ","c","o","n","t","e","n","t",".","<","/","e",">">>

\* 'Error searching AWS docs: '
S_ERROR_SEARCHING ==
    <<"E","r","r","o","r"," ","s","e","a","r","c","h","i","n","g"," ","A","W","S"," ","d","o","c","s",":"," ">>

\* 'Error searching AWS docs - status code '
S_ERROR_SEARCHING_STATUS ==
    <<"E","r","r","o","r"," ","s","e","a","r","c","h","i","n","g"," ","A","W","S"," ","d","o","c","s"," ","-"," ","s","t","a","t","u","s"," ","c","o","d","e"," ">>

\* 'Error parsing search results: '
S_ERROR_PARSING_SEARCH ==
    <<"E","r","r","o","r"," ","p","a","r","s","i","n","g"," ","s","e","a","r","c","h"," ","r","e","s","u","l","t","s",":"," ">>

\* 'Error getting recommendations: '
S_ERROR_RECOMMEND ==
    <<"E","r","r","o","r"," ","g","e","t","t","i","n","g"," ","r","e","c","o","m","m","e","n","d","a","t","i","o","n","s",":"," ">>

\* 'Error getting recommendations - status code '
S_ERROR_RECOMMEND_STATUS ==
    <<"E","r","r","o","r"," ","g","e","t","t","i","n","g"," ","r","e","c","o","m","m","e","n","d","a","t","i","o","n","s"," ","-"," ","s","t","a","t","u","s"," ","c","o","d","e"," ">>

\* 'Error parsing recommendations: '
S_ERROR_PARSING_RECOMMEND ==
    <<"E","r","r","o","r"," ","p","a","r","s","i","n","g"," ","r","e","c","o","m","m","e","n","d","a","t","i","o","n","s",":"," ">>

\* '?path='
S_PATH ==
    <<"?","p","a","t","h","=">>

\* '&session='
S_AND_SESSION ==
    <<"&","s","e","s","s","i","o","n","=">>

DIGITS == <<"0","1","2","3","4","5","6","7","8","9">>

\* str(n) of a non-negative int
RECURSIVE str_int(_)
str_int(n) ==
    IF n < 10 THEN <<DIGITS[n + 1]>>
    ELSE str_int(n \div 10) \o <<DIGITS[(n % 10) + 1]>>

\* `sub in s` of two strings
Contains(s, sub) ==
    \E i \in 1..(Len(s) + 1) :
        i + Len(sub) - 1 <= Len(s) /\ SubSeq(s, i, i + Len(sub) - 1) = sub

\* Variant: `if query_id is not None:`.
Truthy_not_none(v) == v # None

\* The truth value Python gives an Optional[str] in `if query_id:`.
Truthy(v) == v # None /\ v # <<>>

SEARCH_API_URL == <<"h","t","t","p","s",":","/","/","p","r","o","x","y",".","s","e","a","r","c","h",".","d","o","c","s",".","a","w","s",".","a","m","a","z","o","n",".","c","o","m","/","s","e","a","r","c","h">>

RECOMMENDATIONS_API_URL == <<"h","t","t","p","s",":","/","/","c","o","n","t","e","n","t","r","e","c","s","-","a","p","i",".","d","o","c","s",".","a","w","s",".","a","m","a","z","o","n",".","c","o","m","/","v","1","/","r","e","c","o","m","m","e","n","d","a","t","i","o","n","s">>

\* The user agent is one fixed text, kept as a name.
DEFAULT_USER_AGENT == "DEFAULT_USER_AGENT"

\* uuid.uuid4() gives a fresh token at each start of the process.
SessionTokens == {<<"7","c","-","e","1">>, <<"0","a","-","4","f">>}

Set(t, r) == inv' = [inv EXCEPT ![t] = r]

\* Variant: the message is returned without being reported.
SoftFail_unreported(r, error_msg, value) ==
    [r EXCEPT !.pc = "returned", !.result = value]

\* Variant: a failed request is reported and then sent once more.
SoftFail_retry(r, error_msg, value) ==
    [r EXCEPT !.pc = IF r.tool = "search_documentation" THEN "post" ELSE "get",
              !.errors = Append(@, error_msg), !.sent = @ + 1]

\* `await ctx.error(msg)` followed by `return value`
SoftFail(r, error_msg, value) ==
    [r EXCEPT !.pc = "returned", !.errors = Append(@, error_msg), !.result = value]

\* Variant: the exception ends the process, no invocation is taken after it.
ErrorAndRaise_fatal(r, error_msg, type, message) ==
    [r EXCEPT !.pc = "crashed", !.errors = Append(@, error_msg),
              !.exception = [type |-> type, message |-> message]]

\* `await ctx.error(msg)` followed by `raise ValueError(message)`
ErrorAndRaise(r, error_msg, type, message) ==
    [r EXCEPT !.pc = "raised", !.errors = Append(@, error_msg),
              !.exception = [type |-> type, message |-> message]]

\* An exception no handler of the tool catches.
Raise(r, type) ==
    [r EXCEPT !.pc = "raised", !.exception = [type |-> type, message |-> <<>>]]

(***************************************************************************)
(* read_documentation                                                      *)
(***************************************************************************)
\* Variant: the pattern r'^https?://'.
MatchesDocsDomain_any_host(url_str) ==
    StartsWith(url_str, HTTP) \/ StartsWith(url_str, HTTPS)

\* re.match(r'^https?://docs\.aws\.amazon\.com/', url_str)
MatchesDocsDomain(url_str) ==
    \/ StartsWith(url_str, HTTP \o DOCS_HOST \o <<"/">>)
    \/ StartsWith(url_str, HTTPS \o DOCS_HOST \o <<"/">>)

EndsWithHtml(url_str) == EndsWith(url_str, DOT_HTML)

\* util.is_html_content: the content type mentions html, or the body opens
\* with markup.
is_html_content(page_raw, content_type) ==
    \/ Contains(content_type, <<"h","t","m","l">>)
    \/ StartsWith(page_raw, <<"<">>)

\* util.extract_content_from_html, reduced to dropping the tags.
RECURSIVE DropTags(_, _)
DropTags(html, inTag) ==
    IF html = <<>> THEN <<>>
    ELSE IF Head(html) = "<" THEN DropTags(Tail(html), TRUE)
    ELSE IF Head(html) = ">" THEN DropTags(Tail(html), FALSE)
    ELSE IF inTag THEN DropTags(Tail(html), TRUE)
    ELSE <<Head(html)>> \o DropTags(Tail(html), FALSE)

extract_content_from_html(html) == DropTags(html, FALSE)

ResultHeader(url) == S_AWS_DOCUMENTATION_FROM \o url \o <<":","\n","\n">>

NO_MORE_CONTENT == <<"<","e",">","N","o"," ","m","o","r","e"," ","c","o","n","t","e","n","t"," ","a","v","a","i","l","a","b","l","e",".","<","/","e",">">>

TruncationNotice(next_start) ==
    <<"\n","\n">> \o S_CONTENT_TRUNCATED
    \o str_int(next_start) \o
    S_TO_GET_MORE

\* util.format_documentation_result: the header, then the window of the
\* content, then the notice when content remains after the window.
format_documentation_result(url, content, start_index, max_length) ==
    IF start_index >= Len(content)
    THEN ResultHeader(url) \o NO_MORE_CONTENT
    ELSE LET end_index == Min(start_index + max_length, Len(content))
         IN  ResultHeader(url)
             \o SubSeq(content, start_index + 1, end_index)
             \o (IF end_index < Len(content) THEN TruncationNotice(end_index) ELSE <<>>)

\* Variant: a lookup that hits moves the matching batch to the front of the
\* cache, as a least-recently-used cache would.
ReadInvoke_promoting(t, url, max_length, start_index) ==
    /\ inv[t].pc \in {"idle", "returned", "raised"}
    /\ LET url_str == url
           r == [Idle EXCEPT !.tool = "read_documentation", !.url = url_str,
                             !.max_length = max_length, !.start_index = start_index]
       IN  IF ~MatchesDocsDomain(url_str)
           THEN /\ Set(t, ErrorAndRaise(r,
                         S_INVALID_URL \o url_str \o S_MUST_BE_DOMAIN_SENTENCE,
                         "ValueError", S_MUST_BE_DOMAIN))
                /\ UNCHANGED SEARCH_RESULT_CACHE
           ELSE IF ~EndsWithHtml(url_str)
           THEN /\ Set(t, ErrorAndRaise(r,
                         S_INVALID_URL \o url_str \o S_MUST_END_HTML_SENTENCE,
                         "ValueError", S_MUST_END_HTML))
                /\ UNCHANGED SEARCH_RESULT_CACHE
           ELSE LET session_uuid == SESSION_UUID
                    query_id == get_query_id_from_cache(SEARCH_RESULT_CACHE, url_str)
                    url_with_session ==
                        url_str \o S_SESSION \o session_uuid
                        \o (IF Truthy(query_id) THEN S_QUERY_ID \o query_id ELSE <<>>)
                    hits == {i \in 1..Len(SEARCH_RESULT_CACHE) :
                                BatchHasUrl(SEARCH_RESULT_CACHE[i], url_str)}
                IN  /\ Set(t, [r EXCEPT !.pc = "get", !.query_id = query_id,
                                        !.lookups = @ + 1, !.sent = @ + 1,
                                        !.request = [method |-> "GET",
                                                     url |-> url_with_session,
                                                     user_agent |-> DEFAULT_USER_AGENT,
                                                     session_header |-> session_uuid,
                                                     body |-> <<>>]])
                    /\ SEARCH_RESULT_CACHE' =
                           IF hits = {} THEN SEARCH_RESULT_CACHE
                           ELSE LET i == CHOOSE i \in hits : \A k \in hits : i <= k
                                IN  <<SEARCH_RESULT_CACHE[i]>>
                                    \o SubSeq(SEARCH_RESULT_CACHE, 1, i - 1)
                                    \o SubSeq(SEARCH_RESULT_CACHE, i + 1,
                                              Len(SEARCH_RESULT_CACHE))
    /\ UNCHANGED <<inserted, lastLookup, SESSION_UUID>>

\* read_documentation up to its first suspension: the validation, then
\* read_documentation_impl's lookup and the sending of the GET.
ReadInvoke(t, url, max_length, start_index) ==
    /\ inv[t].pc \in {"idle", "returned", "raised"}
    /\ LET url_str == url
           r == [Idle EXCEPT !.tool = "read_documentation", !.url = url_str,
                             !.max_length = max_length, !.start_index = start_index]
       IN  IF ~MatchesDocsDomain(url_str)
           THEN Set(t, ErrorAndRaise(r,
                    S_INVALID_URL \o url_str \o
                    S_MUST_BE_DOMAIN_SENTENCE,
                    "ValueError",
                    S_MUST_BE_DOMAIN))
           ELSE IF ~EndsWithHtml(url_str)
           THEN Set(t, ErrorAndRaise(r,
                    S_INVALID_URL \o url_str \o
                    S_MUST_END_HTML_SENTENCE,
                    "ValueError",
                    S_MUST_END_HTML))
           ELSE LET session_uuid == SESSION_UUID
                    query_id == get_query_id_from_cache(SEARCH_RESULT_CACHE, url_str)
                    url_with_session ==
                        url_str \o S_SESSION \o session_uuid
                        \o (IF Truthy(query_id)
                            THEN S_QUERY_ID \o query_id
                            ELSE <<>>)
                IN  Set(t, [r EXCEPT !.pc = "get", !.query_id = query_id,
                                     !.lookups = @ + 1, !.sent = @ + 1,
                                     !.request = [method |-> "GET",
                                                  url |-> url_with_session,
                                                  user_agent |-> DEFAULT_USER_AGENT,
                                                  session_header |-> session_uuid,
                                                  body |-> <<>>]])
    /\ UNCHANGED <<SEARCH_RESULT_CACHE, inserted, lastLookup, SESSION_UUID>>

\* Variants of ReadResponse: the same steps, the result of a successful GET
\* being Result(url_str, page_raw, content, start_index, max_length).
ReadResponse_returning(t, answer, Result(_, _, _, _, _)) ==
    /\ inv[t].tool = "read_documentation"
    /\ inv[t].pc = "get"
    /\ LET r == [inv[t] EXCEPT !.response = answer]
           url_str == r.url
       IN  IF answer.kind = "error"
           THEN LET error_msg == S_FAILED_TO_FETCH \o url_str \o <<":"," ">> \o answer.message
                IN  Set(t, SoftFail(r, error_msg, error_msg))
           ELSE IF answer.status_code >= 400
           THEN LET error_msg == S_FAILED_TO_FETCH \o url_str \o
                                 S_STATUS_CODE \o str_int(answer.status_code)
                IN  Set(t, SoftFail(r, error_msg, error_msg))
           ELSE LET page_raw == answer.text
                    content == IF is_html_content(page_raw, answer.content_type)
                               THEN extract_content_from_html(page_raw)
                               ELSE page_raw
                IN  Set(t, [r EXCEPT !.pc = "returned",
                                     !.result = Result(url_str, page_raw, content,
                                                       r.start_index, r.max_length)])
    /\ UNCHANGED <<SEARCH_RESULT_CACHE, inserted, lastLookup, SESSION_UUID>>

\* Variant: max_length and start_index are passed in each other's place.
ReadResponse_swapped(t, answer) ==
    ReadResponse_returning(t, answer,
        LAMBDA url_str, page_raw, content, start_index, max_length :
            format_documentation_result(url_str, content, max_length, start_index))

\* Variant: the page is formatted as received, markup included.
ReadResponse_raw(t, answer) ==
    ReadResponse_returning(t, answer,
        LAMBDA url_str, page_raw, content, start_index, max_length :
            format_documentation_result(url_str, page_raw, start_index, max_length))

\* Variant: the window always starts at the beginning of the content.
ReadResponse_from_zero(t, answer) ==
    ReadResponse_returning(t, answer,
        LAMBDA url_str, page_raw, content, start_index, max_length :
            format_documentation_result(url_str, content, 0, max_length))

\* Variant: the lookup is made when the answer is there, and the url of
\* the request is that of the cache at that moment.
ReadResponse_lookup_after_get(t, answer) ==
    /\ inv[t].tool = "read_documentation"
    /\ inv[t].pc = "get"
    /\ LET url_str == inv[t].url
           query_id == get_query_id_from_cache(SEARCH_RESULT_CACHE, url_str)
           url_with_session ==
               url_str \o S_SESSION \o SESSION_UUID
               \o (IF Truthy(query_id) THEN S_QUERY_ID \o query_id ELSE <<>>)
           r == [inv[t] EXCEPT !.response = answer, !.query_id = query_id,
                               !.request.url = url_with_session]
       IN  IF answer.kind = "error"
           THEN LET error_msg == S_FAILED_TO_FETCH \o url_str \o <<":"," ">> \o answer.message
                IN  Set(t, SoftFail(r, error_msg, error_msg))
           ELSE IF answer.status_code >= 400
           THEN LET error_msg == S_FAILED_TO_FETCH \o url_str \o
                                 S_STATUS_CODE \o str_int(answer.status_code)
                IN  Set(t, SoftFail(r, error_msg, error_msg))
           ELSE LET page_raw == answer.text
                    content == IF is_html_content(page_raw, answer.content_type)
                               THEN extract_content_from_html(page_raw)
                               ELSE page_raw
                IN  Set(t, [r EXCEPT !.pc = "returned",
                                     !.result = format_documentation_result(
                                         url_str, content, r.start_index, r.max_length)])
    /\ UNCHANGED <<SEARCH_RESULT_CACHE, inserted, lastLookup, SESSION_UUID>>

\* Variant: the window starts one character after start_index.
ReadResponse_one_past(t, answer) ==
    ReadResponse_returning(t, answer,
        LAMBDA url_str, page_raw, content, start_index, max_length :
            format_documentation_result(url_str, content, start_index + 1, max_length))

\* read_documentation_impl from the answer to its GET to its return.  The
\* answer is an httpx.HTTPError (kind "error") or a response.
ReadResponse(t, answer) ==
    /\ inv[t].tool = "read_documentation"
    /\ inv[t].pc = "get"
    /\ LET r == [inv[t] EXCEPT !.response = answer]
           url_str == r.url
       IN  IF answer.kind = "error"
           THEN LET error_msg == S_FAILED_TO_FETCH \o url_str \o <<":"," ">> \o answer.message
                IN  Set(t, SoftFail(r, error_msg, error_msg))
           ELSE IF answer.status_code >= 400
           THEN LET error_msg == S_FAILED_TO_FETCH \o url_str \o
                                 S_STATUS_CODE \o str_int(answer.status_code)
                IN  Set(t, SoftFail(r, error_msg, error_msg))
           ELSE LET page_raw == answer.text
                    content == IF is_html_content(page_raw, answer.content_type)
                               THEN extract_content_from_html(page_raw)
                               ELSE page_raw
                IN  Set(t, [r EXCEPT !.pc = "returned",
                                     !.result = format_documentation_result(
                                         url_str, content, r.start_index, r.max_length)])
    /\ UNCHANGED <<SEARCH_RESULT_CACHE, inserted, lastLookup, SESSION_UUID>>

(***************************************************************************)
(* search_documentation                                                    *)
(***************************************************************************)
\* A JSON object is a record: `k in d` is k \in DOMAIN d, and {} is <<>>.
EmptyDict == <<>>

Has(d, k) == k \in DOMAIN d

\* d.get(k, default)
Get(d, k, default) == IF Has(d, k) THEN d[k] ELSE default

\* pydantic's validation of SearchResult(...): the str fields hold strings.
SearchResultValid(sr) == sr.url # None /\ sr.title # None /\ sr.query_id # None

\* Variant: the top-level summary is tried before the metadata.
SnippetOf_summary_first(text_suggestion) ==
    LET metadata == Get(text_suggestion, "metadata", EmptyDict)
    IN  IF Has(text_suggestion, "summary") THEN text_suggestion["summary"]
        ELSE IF Has(metadata, "seo_abstract") THEN metadata["seo_abstract"]
        ELSE IF Has(metadata, "abstract") THEN metadata["abstract"]
        ELSE IF Has(text_suggestion, "suggestionBody") THEN text_suggestion["suggestionBody"]
        ELSE None

\* Variant: the summary of the metadata is tried after its abstracts.
SnippetOf_metadata_summary(text_suggestion) ==
    LET metadata == Get(text_suggestion, "metadata", EmptyDict)
    IN  IF Has(metadata, "seo_abstract") THEN metadata["seo_abstract"]
        ELSE IF Has(metadata, "abstract") THEN metadata["abstract"]
        ELSE IF Has(metadata, "summary") THEN metadata["summary"]
        ELSE IF Has(text_suggestion, "summary") THEN text_suggestion["summary"]
        ELSE IF Has(text_suggestion, "suggestionBody") THEN text_suggestion["suggestionBody"]
        ELSE None

\* Variant: a field is used when its value is truthy, `if metadata.get(k):`.
SnippetOf_by_value(text_suggestion) ==
    LET metadata == Get(text_suggestion, "metadata", EmptyDict)
    IN  IF Truthy(Get(metadata, "seo_abstract", None)) THEN metadata["seo_abstract"]
        ELSE IF Truthy(Get(metadata, "abstract", None)) THEN metadata["abstract"]
        ELSE IF Truthy(Get(text_suggestion, "summary", None)) THEN text_suggestion["summary"]
        ELSE IF Truthy(Get(text_suggestion, "suggestionBody", None))
        THEN text_suggestion["suggestionBody"]
        ELSE None

\* The snippet of one textExcerptSuggestion (lines 275-287).
SnippetOf(text_suggestion) ==
    LET metadata == Get(text_suggestion, "metadata", EmptyDict)
    IN  IF Has(metadata, "seo_abstract") THEN metadata["seo_abstract"]
        ELSE IF Has(metadata, "abstract") THEN metadata["abstract"]
        ELSE IF Has(text_suggestion, "summary") THEN text_suggestion["summary"]
        ELSE IF Has(text_suggestion, "suggestionBody") THEN text_suggestion["suggestionBody"]
        ELSE None

\* Variant: `rank_order=i`, the 0-based index of enumerate.
RECURSIVE ResultsFrom_zero_based(_, _, _)
ResultsFrom_zero_based(suggestions, i, query_id) ==
    IF i > Len(suggestions) THEN <<>>
    ELSE (IF Has(suggestions[i], "textExcerptSuggestion")
          THEN LET text_suggestion == suggestions[i]["textExcerptSuggestion"]
               IN  <<SearchResult(i - 1,
                                  Get(text_suggestion, "link", <<>>),
                                  Get(text_suggestion, "title", <<>>),
                                  query_id,
                                  SnippetOf(text_suggestion))>>
          ELSE <<>>)
         \o ResultsFrom_zero_based(suggestions, i + 1, query_id)

\* The loop over enumerate(data['suggestions'][:limit]), from 1-based
\* position i on.
RECURSIVE ResultsFrom(_, _, _)
ResultsFrom(suggestions, i, query_id) ==
    IF i > Len(suggestions) THEN <<>>
    ELSE (IF Has(suggestions[i], "textExcerptSuggestion")
          THEN LET text_suggestion == suggestions[i]["textExcerptSuggestion"]
               IN  <<SearchResult(i,
                                  Get(text_suggestion, "link", <<>>),
                                  Get(text_suggestion, "title", <<>>),
                                  query_id,
                                  SnippetOf(text_suggestion))>>
          ELSE <<>>)
         \o ResultsFrom(suggestions, i + 1, query_id)

\* Variant: the limit is applied to the results, after the suggestions
\* without text excerpt were skipped.
BuildResults_limit_after_skip(data, limit, query_id) ==
    IF Has(data, "suggestions")
    THEN LET all == ResultsFrom(data["suggestions"], 1, query_id)
         IN  SubSeq(all, 1, Min(limit, Len(all)))
    ELSE <<>>

\* The results as built when no constructor raises (lines 270-297).
BuildResults(data, limit, query_id) ==
    IF Has(data, "suggestions")
    THEN ResultsFrom(SubSeq(data["suggestions"], 1, Min(limit, Len(data["suggestions"]))),
                     1, query_id)
    ELSE <<>>

\* Variant: the error result is ranked 0.
ErrorResults_rank0(error_msg) == <<SearchResult(0, <<>>, error_msg, <<>>, None)>>

ErrorResults(error_msg) == <<SearchResult(1, <<>>, error_msg, <<>>, None)>>

\* search_documentation up to its suspension: the POST is sent.
SearchInvoke(t, search_phrase, limit) ==
    /\ inv[t].pc \in {"idle", "returned", "raised"}
    /\ LET search_url_with_session == SEARCH_API_URL \o S_SESSION \o SESSION_UUID
       IN  Set(t, [Idle EXCEPT !.tool = "search_documentation", !.pc = "post",
                               !.limit = limit, !.sent = @ + 1,
                               !.request = [method |-> "POST",
                                            url |-> search_url_with_session,
                                            user_agent |-> DEFAULT_USER_AGENT,
                                            session_header |-> SESSION_UUID,
                                            body |-> search_phrase]])
    /\ UNCHANGED <<SEARCH_RESULT_CACHE, inserted, lastLookup, SESSION_UUID>>

\* Variant: the error list of a soft failure is inserted into the cache.
SearchResponse_caching_errors(t, answer) ==
    /\ inv[t].tool = "search_documentation"
    /\ inv[t].pc = "post"
    /\ LET r == [inv[t] EXCEPT !.response = answer]
           failed(error_msg) ==
               /\ Set(t, SoftFail(r, error_msg, ErrorResults(error_msg)))
               /\ SEARCH_RESULT_CACHE' =
                      add_search_result_cache_item(SEARCH_RESULT_CACHE,
                                                   ErrorResults(error_msg))
       IN  IF answer.kind = "error"
           THEN failed(S_ERROR_SEARCHING \o answer.message)
           ELSE IF answer.status_code >= 400
           THEN failed(S_ERROR_SEARCHING_STATUS \o str_int(answer.status_code))
           ELSE IF answer.body.kind = "not_json"
           THEN failed(S_ERROR_PARSING_SEARCH \o answer.body.message)
           ELSE IF answer.body.kind # "object"
           THEN /\ Set(t, Raise(r, "AttributeError"))
                /\ UNCHANGED SEARCH_RESULT_CACHE
           ELSE LET data == answer.body.value
                IN  /\ Set(t, [r EXCEPT !.pc = "close", !.data = data,
                                        !.query_id = Get(data, "queryId", None)])
                    /\ UNCHANGED SEARCH_RESULT_CACHE
    /\ UNCHANGED <<inserted, lastLookup, SESSION_UUID>>

\* From the answer to the POST to the end of the `async with` block: the
\* three soft failures return, an object body is kept in `data`, and the
\* client is closed, where the coroutine may be suspended once more.
SearchResponse(t, answer) ==
    /\ inv[t].tool = "search_documentation"
    /\ inv[t].pc = "post"
    /\ LET r == [inv[t] EXCEPT !.response = answer]
       IN  IF answer.kind = "error"
           THEN LET error_msg == S_ERROR_SEARCHING \o answer.message
                IN  Set(t, SoftFail(r, error_msg, ErrorResults(error_msg)))
           ELSE IF answer.status_code >= 400
           THEN LET error_msg == S_ERROR_SEARCHING_STATUS \o str_int(answer.status_code)
                IN  Set(t, SoftFail(r, error_msg, ErrorResults(error_msg)))
           ELSE IF answer.body.kind = "not_json"
           THEN LET error_msg == S_ERROR_PARSING_SEARCH \o answer.body.message
                IN  Set(t, SoftFail(r, error_msg, ErrorResults(error_msg)))
           ELSE IF answer.body.kind # "object"
           THEN \* data.get on a list, a string or a number
                Set(t, Raise(r, "AttributeError"))
           ELSE LET data == answer.body.value
                IN  Set(t, [r EXCEPT !.pc = "close", !.data = data,
                                     !.query_id = Get(data, "queryId", None)])
    /\ UNCHANGED <<SEARCH_RESULT_CACHE, inserted, lastLookup, SESSION_UUID>>

\* The cache after each result was inserted as a batch of its own.
RECURSIVE InsertEach(_, _)
InsertEach(cache, results) ==
    IF results = <<>> THEN cache
    ELSE InsertEach(add_search_result_cache_item(cache, <<Head(results)>>), Tail(results))

\* Variant: the insert is made inside the loop, once per result.
SearchFinish_insert_in_loop(t) ==
    /\ inv[t].tool = "search_documentation"
    /\ inv[t].pc = "close"
    /\ LET r == inv[t]
           results == BuildResults(r.data, r.limit, r.query_id)
       IN  IF \E i \in 1..Len(results) : ~SearchResultValid(results[i])
           THEN /\ Set(t, Raise([r EXCEPT !.data = NoData], "ValidationError"))
                /\ UNCHANGED SEARCH_RESULT_CACHE
           ELSE /\ SEARCH_RESULT_CACHE' = InsertEach(SEARCH_RESULT_CACHE, results)
                /\ Set(t, [r EXCEPT !.pc = "returned", !.data = NoData,
                                    !.result = results])
    /\ UNCHANGED <<inserted, lastLookup, SESSION_UUID>>

\* Variant: `if results: add_search_result_cache_item(results)`.
SearchFinish_skip_empty(t) ==
    /\ inv[t].tool = "search_documentation"
    /\ inv[t].pc = "close"
    /\ LET r == inv[t]
           results == BuildResults(r.data, r.limit, r.query_id)
       IN  IF \E i \in 1..Len(results) : ~SearchResultValid(results[i])
           THEN /\ Set(t, Raise([r EXCEPT !.data = NoData], "ValidationError"))
                /\ UNCHANGED SEARCH_RESULT_CACHE
           ELSE /\ SEARCH_RESULT_CACHE' =
                       IF results = <<>> THEN SEARCH_RESULT_CACHE
                       ELSE add_search_result_cache_item(SEARCH_RESULT_CACHE, results)
                /\ Set(t, [r EXCEPT !.pc = "returned", !.data = NoData,
                                    !.result = results])
    /\ UNCHANGED <<inserted, lastLookup, SESSION_UUID>>

\* Lines 270-302: the results are built, inserted into the cache and
\* returned; a SearchResult that fails validation ends the call before.
SearchFinish(t) ==
    /\ inv[t].tool = "search_documentation"
    /\ inv[t].pc = "close"
    /\ LET r == inv[t]
           results == BuildResults(r.data, r.limit, r.query_id)
       IN  IF \E i \in 1..Len(results) : ~SearchResultValid(results[i])
           THEN /\ Set(t, Raise([r EXCEPT !.data = NoData], "ValidationError"))
                /\ UNCHANGED SEARCH_RESULT_CACHE
           ELSE /\ SEARCH_RESULT_CACHE' =
                       add_search_result_cache_item(SEARCH_RESULT_CACHE, results)
                /\ Set(t, [r EXCEPT !.pc = "returned", !.data = NoData,
                                    !.result = results])
    /\ UNCHANGED <<inserted, lastLookup, SESSION_UUID>>

(***************************************************************************)
(* recommend                                                               *)
(***************************************************************************)
RecommendationResult(url, title, context) ==
    [url |-> url, title |-> title, context |-> context]

\* util.parse_recommendation_results: the entries of the response's groups,
\* in the response's order, without their category.
RECURSIVE parse_recommendation_results(_)
parse_recommendation_results(data) ==
    IF data = <<>> THEN <<>>
    ELSE [i \in 1..Len(Head(data).items) |->
              RecommendationResult(Head(data).items[i].url,
                                   Head(data).items[i].title,
                                   Head(data).items[i].context)]
         \o parse_recommendation_results(Tail(data))

\* Variant: the message goes to context instead of title.
ErrorRecommendations_in_context(error_msg) ==
    <<RecommendationResult(<<>>, <<>>, error_msg)>>

ErrorRecommendations(error_msg) == <<RecommendationResult(<<>>, error_msg, None)>>

\* Variant: the recommendation url carries the path only.
RecommendInvoke_without_session(t, url) ==
    /\ inv[t].pc \in {"idle", "returned", "raised"}
    /\ LET url_str == url
           recommendation_url == RECOMMENDATIONS_API_URL \o S_PATH \o url_str
       IN  Set(t, [Idle EXCEPT !.tool = "recommend", !.pc = "get", !.url = url_str,
                               !.sent = @ + 1,
                               !.request = [method |-> "GET",
                                            url |-> recommendation_url,
                                            user_agent |-> DEFAULT_USER_AGENT,
                                            session_header |-> None,
                                            body |-> <<>>]])
    /\ UNCHANGED <<SEARCH_RESULT_CACHE, inserted, lastLookup, SESSION_UUID>>

\* recommend up to its suspension: the GET is sent.
RecommendInvoke(t, url) ==
    /\ inv[t].pc \in {"idle", "returned", "raised"}
    /\ LET url_str == url
           recommendation_url ==
               RECOMMENDATIONS_API_URL \o S_PATH \o url_str \o S_AND_SESSION \o SESSION_UUID
       IN  Set(t, [Idle EXCEPT !.tool = "recommend", !.pc = "get", !.url = url_str,
                               !.sent = @ + 1,
                               !.request = [method |-> "GET",
                                            url |-> recommendation_url,
                                            user_agent |-> DEFAULT_USER_AGENT,
                                            session_header |-> None,
                                            body |-> <<>>]])
    /\ UNCHANGED <<SEARCH_RESULT_CACHE, inserted, lastLookup, SESSION_UUID>>

\* recommend from the answer to its GET to its return.
RecommendResponse(t, answer) ==
    /\ inv[t].tool = "recommend"
    /\ inv[t].pc = "get"
    /\ LET r == [inv[t] EXCEPT !.response = answer]
       IN  IF answer.kind = "error"
           THEN LET error_msg == S_ERROR_RECOMMEND \o answer.message
                IN  Set(t, SoftFail(r, error_msg, ErrorRecommendations(error_msg)))
           ELSE IF answer.status_code >= 400
           THEN LET error_msg == S_ERROR_RECOMMEND_STATUS \o str_int(answer.status_code)
                IN  Set(t, SoftFail(r, error_msg, ErrorRecommendations(error_msg)))
           ELSE IF answer.body.kind = "not_json"
           THEN LET error_msg == S_ERROR_PARSING_RECOMMEND \o answer.body.message
                IN  Set(t, SoftFail(r, error_msg, ErrorRecommendations(error_msg)))
           ELSE Set(t, [r EXCEPT !.pc = "returned",
                                 !.result = parse_recommendation_results(answer.body.value)])
    /\ UNCHANGED <<SEARCH_RESULT_CACHE, inserted, lastLookup, SESSION_UUID>>

(***************************************************************************)
(* The inputs of the tools and the answers of the remote services.         *)
(***************************************************************************)
\* 'ftp://docs.aws.amazon.com/a.html'
URL_FTP == <<"f","t","p",":","/","/">> \o DOCS_HOST \o <<"/","a">> \o DOT_HTML

\* 'https://example.com/a.html'
URL_OTHER_HOST ==
    HTTPS \o <<"e","x","a","m","p","l","e",".","c","o","m","/","a">> \o DOT_HTML

\* 'https://docs.aws.amazon.com.evil.io/a.html'
URL_HOST_PREFIX ==
    HTTPS \o DOCS_HOST \o <<".","e","v","i","l",".","i","o","/","a">> \o DOT_HTML

\* 'https://docsXaws.amazon.com/a.html'
URL_DOTS ==
    HTTPS \o <<"d","o","c","s","X","a","w","s",".","a","m","a","z","o","n",".","c","o","m">>
    \o <<"/","a">> \o DOT_HTML

\* 'https://docs.aws.amazon.com/a'
URL_NO_SUFFIX == HTTPS \o DOCS_HOST \o <<"/","a">>

\* 'https://docs.aws.amazon.com/a.html?x'
URL_SUFFIX_INSIDE == HTTPS \o DOCS_HOST \o <<"/","a">> \o DOT_HTML \o <<"?","x">>

\* 'example.com/a'
URL_NEITHER == <<"e","x","a","m","p","l","e",".","c","o","m","/","a">>

ReadUrls ==
    {URL_A, URL_C, URL_FTP, URL_OTHER_HOST, URL_HOST_PREFIX, URL_DOTS,
     URL_NO_SUFFIX, URL_SUFFIX_INSIDE, URL_NEITHER}

ReadMaxLengths == {3}

ReadStartIndexes == {0, 4}

\* str(e) of the httpx.HTTPError; a timeout is one of them and often has no
\* text.
ERR_CONNECTION == <<"C","o","n","n","e","c","t","i","o","n"," ","e","r","r","o","r">>

ERR_TIMEOUT == <<>>

TransportErrors ==
    {[kind |-> "error", message |-> m] : m \in {ERR_CONNECTION, ERR_TIMEOUT}}

TEXT_HTML == <<"t","e","x","t","/","h","t","m","l">>

TEXT_PLAIN == <<"t","e","x","t","/","p","l","a","i","n">>

PAGE_PLAIN == <<"a","b","c","d","e">>

PAGE_HTML == <<"<","p",">","a","b","<","/","p",">">>

PageResponse(status_code, text, content_type) ==
    [kind |-> "response", status_code |-> status_code, text |-> text,
     content_type |-> content_type]

PageAnswers ==
    TransportErrors
    \cup {PageResponse(200, PAGE_PLAIN, TEXT_PLAIN),
          PageResponse(200, PAGE_HTML, TEXT_HTML),
          PageResponse(399, PAGE_PLAIN, TEXT_PLAIN),
          PageResponse(400, PAGE_PLAIN, TEXT_PLAIN),
          PageResponse(404, PAGE_HTML, TEXT_HTML)}

\* str(e) of the json.JSONDecodeError
ERR_JSON == <<"E","x","p","e","c","t","i","n","g"," ","v","a","l","u","e",":"," ","l","i","n","e"," ","1"," ","c","o","l","u","m","n"," ","1"," ","(","c","h","a","r"," ","0",")">>

NotJson == [kind |-> "not_json", message |-> ERR_JSON]

JsonArray == [kind |-> "array"]

JsonObject(value) == [kind |-> "object", value |-> value]

ApiResponse(status_code, body) ==
    [kind |-> "response", status_code |-> status_code, body |-> body]

Excerpt(link) == [textExcerptSuggestion |-> [link |-> link, title |-> TITLE]]

\* A suggestion of another shape, and a text excerpt with neither link nor
\* title.
OtherSuggestion == [otherSuggestion |-> TITLE]

BareExcerpt == [textExcerptSuggestion |-> [summary |-> TITLE]]

SearchData ==
    {[queryId |-> QID_1, suggestions |-> <<Excerpt(URL_A), Excerpt(URL_C)>>],
     [queryId |-> QID_UNSAFE, suggestions |-> <<OtherSuggestion, Excerpt(URL_A)>>],
     [queryId |-> QID_EMPTY, suggestions |-> <<Excerpt(URL_A)>>],
     [queryId |-> QID_2, suggestions |-> <<BareExcerpt>>],
     [queryId |-> QID_2],
     [suggestions |-> <<Excerpt(URL_C)>>]}

SearchAnswers ==
    TransportErrors
    \cup {ApiResponse(400, NotJson), ApiResponse(500, NotJson),
          ApiResponse(200, NotJson), ApiResponse(200, JsonArray),
          ApiResponse(399, JsonObject([queryId |-> QID_2]))}
    \cup {ApiResponse(200, JsonObject(d)) : d \in SearchData}

SearchPhrases == {<<"s","3">>}

SearchLimits == {1, 2}

Entry(url) == [url |-> url, title |-> TITLE, context |-> None]

RecommendData ==
    {<<[category |-> "highlyRated", items |-> <<Entry(URL_A), Entry(URL_C)>>],
       [category |-> "new", items |-> <<Entry(URL_B)>>]>>,
     <<>>}

RecommendAnswers ==
    TransportErrors
    \cup {ApiResponse(400, NotJson), ApiResponse(503, NotJson), ApiResponse(200, NotJson),
          ApiResponse(399, JsonObject(<<>>))}
    \cup {ApiResponse(200, JsonObject(d)) : d \in RecommendData}

RecommendUrls == {URL_A, URL_NEITHER}

(***************************************************************************)
(* The server: the module is loaded, then the host invokes the tools.      *)
(***************************************************************************)
Init ==
    /\ SEARCH_RESULT_CACHE = <<>>
    /\ inserted = <<>>
    /\ lastLookup = NoLookup
    /\ SESSION_UUID \in SessionTokens
    /\ inv = [t \in Tasks |-> Idle]

\* One step of task t: a tool is invoked, or the invocation it runs goes on
\* from its suspension point.
Serve(t) ==
    \/ \E url \in ReadUrls, m \in ReadMaxLengths, s \in ReadStartIndexes :
           ReadInvoke(t, url, m, s)
    \/ \E answer \in PageAnswers : ReadResponse(t, answer)
    \/ \E phrase \in SearchPhrases, limit \in SearchLimits :
           SearchInvoke(t, phrase, limit)
    \/ \E answer \in SearchAnswers : SearchResponse(t, answer)
    \/ SearchFinish(t)
    \/ \E url \in RecommendUrls : RecommendInvoke(t, url)
    \/ \E answer \in RecommendAnswers : RecommendResponse(t, answer)

\* The host serves one invocation at a time.
Next == Serve("t1")

Spec == Init /\ [][Next]_vars

(***************************************************************************)
(* Properties of the tools.                                                *)
(***************************************************************************)
\* The url does not start with http:// or https:// followed by the host
\* docs.aws.amazon.com, or does not end with .html.
OutsideDocs(url) ==
    \/ ~(StartsWith(url, HTTP \o DOCS_HOST) \/ StartsWith(url, HTTPS \o DOCS_HOST))
    \/ ~EndsWith(url, DOT_HTML)

\* C6: read_documentation rejects every url that does not start with
\* http:// or https:// and the host docs.aws.amazon.com, and every url that
\* does not end with .html: it raises a validation error, having sent no
\* request and not consulted the cache.
C6_InvalidUrlRejected ==
    \A t \in Tasks :
        (inv[t].tool = "read_documentation" /\ OutsideDocs(inv[t].url)) =>
            /\ inv[t].pc = "raised"
            /\ inv[t].exception.type = "ValueError"
            /\ Len(inv[t].errors) = 1
            /\ inv[t].sent = 0
            /\ inv[t].request = NoRequest
            /\ inv[t].lookups = 0
            /\ inv[t].query_id = None

\* A url of another host, cached by an earlier search, was rejected.
C6_Witness ==
    /\ inv["t1"].tool = "read_documentation"
    /\ inv["t1"].url = URL_OTHER_HOST
    /\ inv["t1"].pc = "raised"
    /\ SEARCH_RESULT_CACHE # <<>>

\* A url of the right host that does not end with .html was rejected.
C6_WitnessSuffix ==
    /\ inv["t1"].tool = "read_documentation"
    /\ inv["t1"].url = URL_SUFFIX_INSIDE
    /\ inv["t1"].pc = "raised"

HasQueryIdParam(url) == Contains(url, S_QUERY_ID)

\* C7 as claimed: the GET goes to <url>?session=<session> when the lookup
\* found no query id, and to <url>?session=<session>&query_id=<id> when it
\* found one.
C7_Claimed ==
    \A t \in Tasks :
        (inv[t].tool = "read_documentation" /\ inv[t].sent > 0) =>
            /\ inv[t].sent = 1
            /\ inv[t].request.method = "GET"
            /\ HasQueryIdParam(inv[t].request.url) <=> (inv[t].query_id # None)
            /\ inv[t].request.url =
                   IF inv[t].query_id = None
                   THEN inv[t].url \o S_SESSION \o SESSION_UUID
                   ELSE inv[t].url \o S_SESSION \o SESSION_UUID
                        \o S_QUERY_ID \o inv[t].query_id

\* C7, amended: the GET goes to <url>?session=<session> when the lookup
\* found no query id or an empty one, and to
\* <url>?session=<session>&query_id=<id> when it found a non-empty one; the
\* parameter's value is the id the lookup returned.
C7_QueryIdParamIffNonEmptyId ==
    \A t \in Tasks :
        (inv[t].tool = "read_documentation" /\ inv[t].sent > 0) =>
            /\ inv[t].sent = 1
            /\ inv[t].request.method = "GET"
            /\ HasQueryIdParam(inv[t].request.url)
                   <=> (inv[t].query_id # None /\ inv[t].query_id # <<>>)
            /\ inv[t].request.url =
                   IF inv[t].query_id = None \/ inv[t].query_id = <<>>
                   THEN inv[t].url \o S_SESSION \o SESSION_UUID
                   ELSE inv[t].url \o S_SESSION \o SESSION_UUID
                        \o S_QUERY_ID \o inv[t].query_id

\* A read was sent with the id a search had cached for its url.
C7_Witness ==
    /\ inv["t1"].tool = "read_documentation"
    /\ inv["t1"].pc = "get"
    /\ inv["t1"].query_id = quote(QID_UNSAFE)
    /\ inv["t1"].request.url =
           URL_A \o S_SESSION \o SESSION_UUID \o S_QUERY_ID \o quote(QID_UNSAFE)

\* A read of a url cached with the empty id was sent without the parameter.
C7_WitnessEmptyId ==
    /\ inv["t1"].tool = "read_documentation"
    /\ inv["t1"].pc = "get"
    /\ inv["t1"].query_id = <<>>
    /\ inv["t1"].request.url = URL_A \o S_SESSION \o SESSION_UUID

\* A read of a url no search had cached was sent without the parameter.
C7_WitnessMiss ==
    /\ inv["t1"].tool = "read_documentation"
    /\ inv["t1"].pc = "get"
    /\ inv["t1"].query_id = None
    /\ SEARCH_RESULT_CACHE # <<>>
    /\ inv["t1"].request.url = URL_C \o S_SESSION \o SESSION_UUID

Failed(response) ==
    response.kind = "error" \/ (response.kind = "response" /\ response.status_code >= 400)

\* C8: when the page GET fails with a transport error or the status is 400
\* or more, read_documentation_impl does not raise: it reports one message
\* to ctx.error and returns that message, which names the url and the
\* failure text or the status code; with a status below 400 it reports
\* nothing.
C8_ReadSoftFails ==
    \A t \in Tasks :
        (inv[t].tool = "read_documentation" /\ inv[t].response.kind # "none") =>
            /\ inv[t].pc = "returned"
            /\ IF Failed(inv[t].response)
               THEN /\ Len(inv[t].errors) = 1
                    /\ inv[t].result = inv[t].errors[1]
                    /\ Contains(inv[t].result, inv[t].url)
                    /\ IF inv[t].response.kind = "error"
                       THEN Contains(inv[t].result, inv[t].response.message)
                       ELSE Contains(inv[t].result, str_int(inv[t].response.status_code))
               ELSE inv[t].errors = <<>>

\* A read answered with status 400 returned the message it reported.
C8_Witness ==
    /\ inv["t1"].tool = "read_documentation"
    /\ inv["t1"].response.kind = "response"
    /\ inv["t1"].response.status_code = 400
    /\ inv["t1"].pc = "returned"
    /\ inv["t1"].errors = <<inv["t1"].result>>

\* A read that could not connect returned the message it reported, and one
\* answered with status 399 reported nothing.
C8_WitnessTransport ==
    /\ inv["t1"].tool = "read_documentation"
    /\ inv["t1"].response.kind = "error"
    /\ inv["t1"].response.message = ERR_CONNECTION
    /\ inv["t1"].errors = <<inv["t1"].result>>

C8_WitnessBelow400 ==
    /\ inv["t1"].tool = "read_documentation"
    /\ inv["t1"].response.kind = "response"
    /\ inv["t1"].response.status_code = 399
    /\ inv["t1"].pc = "returned"
    /\ inv["t1"].errors = <<>>

\* The call failed softly: no answer, a status of 400 or more, or a body
\* that is not JSON.
SoftFailure(response) ==
    \/ Failed(response)
    \/ (response.kind = "response" /\ response.body.kind = "not_json")

\* The text the error message must carry.
FailureText(response) ==
    IF response.kind = "error" THEN response.message
    ELSE IF response.status_code >= 400 THEN str_int(response.status_code)
    ELSE response.body.message

\* C9: a transport failure, a status of 400 or more, or a body that is not
\* JSON makes search_documentation return (not raise) a list of exactly one
\* SearchResult with rank 1, the error message as title, an empty url, an
\* empty query id and no context, the message having been reported to
\* ctx.error.
C9_SearchSoftFails ==
    \A t \in Tasks :
        (inv[t].tool = "search_documentation" /\ SoftFailure(inv[t].response)) =>
            /\ inv[t].pc = "returned"
            /\ Len(inv[t].result) = 1
            /\ inv[t].result[1].rank_order = 1
            /\ inv[t].result[1].url = <<>>
            /\ inv[t].result[1].query_id = <<>>
            /\ inv[t].result[1].context = None
            /\ inv[t].errors = <<inv[t].result[1].title>>
            /\ Contains(inv[t].result[1].title, FailureText(inv[t].response))
            /\ Len(inv[t].result[1].title) > Len(FailureText(inv[t].response))

\* A search answered 200 with a body that is not JSON returned the list.
C9_Witness ==
    /\ inv["t1"].tool = "search_documentation"
    /\ inv["t1"].response.kind = "response"
    /\ inv["t1"].response.status_code = 200
    /\ inv["t1"].response.body.kind = "not_json"
    /\ inv["t1"].pc = "returned"
    /\ Len(inv["t1"].result) = 1

\* C10: a transport error, a status of 400 or more, or a body that is not
\* JSON makes recommend return (not raise) a list of exactly one
\* RecommendationResult with the error message as title, an empty url and
\* no context.
C10_RecommendSoftFails ==
    \A t \in Tasks :
        (inv[t].tool = "recommend" /\ SoftFailure(inv[t].response)) =>
            /\ inv[t].pc = "returned"
            /\ Len(inv[t].result) = 1
            /\ inv[t].result[1].url = <<>>
            /\ inv[t].result[1].context = None
            /\ inv[t].errors = <<inv[t].result[1].title>>
            /\ Contains(inv[t].result[1].title, FailureText(inv[t].response))
            /\ Len(inv[t].result[1].title) > Len(FailureText(inv[t].response))

\* A recommend answered with status 503 returned the list.
C10_Witness ==
    /\ inv["t1"].tool = "recommend"
    /\ inv["t1"].response.kind = "response"
    /\ inv["t1"].response.status_code = 503
    /\ inv["t1"].pc = "returned"
    /\ Len(inv["t1"].result) = 1

(***************************************************************************)
(* Searches alone, over responses whose suggestions have every combination *)
(* of the snippet fields.                                                  *)
(***************************************************************************)
\* The values of the snippet fields, one per field.
V_SEO_ABSTRACT == <<"S">>

V_ABSTRACT == <<"A">>

V_SUMMARY == <<"U">>

V_BODY == <<"B">>

V_METADATA_SUMMARY == <<"M">>

NoMetadata == {"absent"}

\* The metadata object with these keys.
Metadata(keys) ==
    [k \in keys |->
        CASE k = "seo_abstract" -> V_SEO_ABSTRACT
          [] k = "abstract" -> V_ABSTRACT
          [] k = "summary" -> V_METADATA_SUMMARY]

\* A textExcerptSuggestion with link and title, the top-level snippet fields
\* `top`, and the metadata object with the keys `meta` (none when meta is
\* NoMetadata).
SnippetSuggestion(link, meta, top) ==
    [textExcerptSuggestion |->
        [k \in {"link", "title"} \cup top
                \cup (IF meta = NoMetadata THEN {} ELSE {"metadata"}) |->
            CASE k = "link" -> link
              [] k = "title" -> TITLE
              [] k = "summary" -> V_SUMMARY
              [] k = "suggestionBody" -> V_BODY
              [] k = "metadata" -> Metadata(meta)]]

\* The four combinations of the top-level fields, for one metadata object.
TopCombinations(link, meta) ==
    <<SnippetSuggestion(link, meta, {"summary", "suggestionBody"}),
      SnippetSuggestion(link, meta, {"summary"}),
      SnippetSuggestion(link, meta, {"suggestionBody"}),
      SnippetSuggestion(link, meta, {})>>

SnippetData ==
    {[queryId |-> QID_1,
      suggestions |-> TopCombinations(URL_A, {"seo_abstract", "abstract", "summary"})
                      \o TopCombinations(URL_B, {"seo_abstract"})],
     [queryId |-> QID_2,
      suggestions |-> TopCombinations(URL_A, {"abstract"})
                      \o TopCombinations(URL_C, {})],
     [queryId |-> QID_UNSAFE,
      suggestions |-> TopCombinations(URL_C, NoMetadata)
                      \o TopCombinations(URL_B, {"summary"})],
     [queryId |-> QID_1,
      suggestions |-> <<SnippetSuggestion(URL_B, NoMetadata, {"suggestionBody"}),
                        OtherSuggestion,
                        SnippetSuggestion(URL_A, {"abstract"}, {})>>]}

SnippetAnswers == {ApiResponse(200, JsonObject(d)) : d \in SnippetData}

SnippetLimits == {2, 8}

SearchNext ==
    \/ \E phrase \in SearchPhrases, limit \in SnippetLimits :
           SearchInvoke("t1", phrase, limit)
    \/ \E answer \in SnippetAnswers : SearchResponse("t1", answer)
    \/ SearchFinish("t1")

SpecSearch == Init /\ [][SearchNext]_vars

(***************************************************************************)
(* Properties of the search results.                                       *)
(***************************************************************************)
\* The search of task t has returned the results of an object body.
SearchSucceeded(t) ==
    /\ inv[t].tool = "search_documentation"
    /\ inv[t].pc = "returned"
    /\ inv[t].response.kind = "response"
    /\ inv[t].response.status_code < 400
    /\ inv[t].response.body.kind = "object"

\* The suggestions of the response the search of task t received.
Suggestions(t) == Get(inv[t].response.body.value, "suggestions", <<>>)

\* The four candidate fields of a text excerpt, in the order of preference:
\* the object holding the field and the field's key.
Candidates(text_suggestion) ==
    LET metadata == Get(text_suggestion, "metadata", EmptyDict)
    IN  <<[in |-> metadata, key |-> "seo_abstract"],
          [in |-> metadata, key |-> "abstract"],
          [in |-> text_suggestion, key |-> "summary"],
          [in |-> text_suggestion, key |-> "suggestionBody"]>>

\* The field is there and holds a non-empty text.
Populated(c) == Has(c.in, c.key) /\ c.in[c.key] # None /\ c.in[c.key] # <<>>

\* Every candidate field of the text excerpt is populated or is not there.
PopulatedOrAbsent(text_suggestion) ==
    \A i \in 1..4 :
        LET c == Candidates(text_suggestion)[i]
        IN  Has(c.in, c.key) => Populated(c)

\* The value of the first populated candidate, None when there is none.
FallbackContext(text_suggestion) ==
    LET c == Candidates(text_suggestion)
    IN  IF \E i \in 1..4 : Populated(c[i])
        THEN LET first == CHOOSE i \in 1..4 :
                              /\ Populated(c[i])
                              /\ \A k \in 1..(i - 1) : ~Populated(c[k])
             IN  c[first].in[c[first].key]
        ELSE None

\* The keys of the candidate fields that are populated.
PopulatedKeys(text_suggestion) ==
    {i \in 1..4 : Populated(Candidates(text_suggestion)[i])}

C11_WitnessAll ==
    /\ SearchSucceeded("t1")
    /\ Len(SEARCH_RESULT_CACHE) = 3
    /\ {inv["t1"].result[j].context : j \in 1..Len(inv["t1"].result)}
           = {V_SUMMARY, V_BODY, None}
    /\ \E j \in 1..Len(inv["t1"].result) :
           ~Has(Suggestions("t1")[j]["textExcerptSuggestion"], "metadata")

\* The positions, among the first `limit` suggestions of the response, of
\* the suggestions that carry a text excerpt.
ExcerptPositions(t) ==
    {i \in 1..Min(inv[t].limit, Len(Suggestions(t))) :
        Has(Suggestions(t)[i], "textExcerptSuggestion")}

\* C12 as claimed: for a response with a batch of k suggestions (the first
\* `limit` of the response) the ranks of the returned results are exactly
\* 1..k, in response order.
C12_Claimed ==
    \A t \in Tasks :
        SearchSucceeded(t) =>
            /\ Len(inv[t].result) = Min(inv[t].limit, Len(Suggestions(t)))
            /\ \A j \in 1..Len(inv[t].result) : inv[t].result[j].rank_order = j

\* C12, amended: the rank of each returned result is the 1-based position
\* of its suggestion in the response, among the first `limit` suggestions:
\* the ranks increase in response order, whatever snippet fields the
\* suggestions have, and are exactly 1..k when the response has k <= limit
\* suggestions that all carry a text excerpt; a suggestion without one is
\* skipped and its position is left out of the ranks.
C12_RankIsResponsePosition ==
    \A t \in Tasks :
        SearchSucceeded(t) =>
            /\ Len(inv[t].result) = Cardinality(ExcerptPositions(t))
            /\ {inv[t].result[j].rank_order : j \in 1..Len(inv[t].result)}
                   = ExcerptPositions(t)
            /\ \A j \in 1..(Len(inv[t].result) - 1) :
                   inv[t].result[j].rank_order < inv[t].result[j + 1].rank_order
            /\ \A j \in 1..Len(inv[t].result) :
                   inv[t].result[j].url =
                       Get(Suggestions(t)[inv[t].result[j].rank_order]["textExcerptSuggestion"],
                           "link", <<>>)
            /\ ExcerptPositions(t) = 1..Len(Suggestions(t)) =>
                   \A j \in 1..Len(inv[t].result) : inv[t].result[j].rank_order = j

\* Eight suggestions with different snippet fields, some with none, were
\* returned with the ranks 1..8.
C12_Witness ==
    /\ SearchSucceeded("t1")
    /\ Len(Suggestions("t1")) = 8
    /\ [j \in 1..Len(inv["t1"].result) |-> inv["t1"].result[j].rank_order]
           = <<1, 2, 3, 4, 5, 6, 7, 8>>
    /\ Cardinality({inv["t1"].result[j].context : j \in 1..8}) >= 4
    /\ \E j \in 1..8 : inv["t1"].result[j].context = None

\* Of three suggestions the second carries no text excerpt: the results
\* returned have the ranks 1 and 3.
C12_WitnessGap ==
    /\ SearchSucceeded("t1")
    /\ Len(Suggestions("t1")) = 3
    /\ inv["t1"].limit = 8
    /\ [j \in 1..Len(inv["t1"].result) |-> inv["t1"].result[j].rank_order] = <<1, 3>>

(***************************************************************************)
(* Reads alone, over pages and windows of every relative size.             *)
(***************************************************************************)
PAGE_EMPTY == <<>>

\* '<p></p>': markup without text
PAGE_TAGS_ONLY == <<"<","p",">","<","/","p",">">>

WindowUrls == {URL_A, URL_C}

WindowMaxLengths == {1, 2, 3, 5}

WindowStartIndexes == {0, 1, 2, 3, 4, 5, 6}

WindowAnswers ==
    {PageResponse(200, PAGE_PLAIN, TEXT_PLAIN),
     PageResponse(200, PAGE_HTML, TEXT_HTML),
     PageResponse(200, PAGE_EMPTY, TEXT_PLAIN),
     PageResponse(200, PAGE_TAGS_ONLY, TEXT_PLAIN),
     PageResponse(404, PAGE_PLAIN, TEXT_PLAIN)}

ReadNext ==
    \/ \E url \in WindowUrls, m \in WindowMaxLengths, s \in WindowStartIndexes :
           ReadInvoke("t1", url, m, s)
    \/ \E answer \in WindowAnswers : ReadResponse("t1", answer)

SpecRead == Init /\ [][ReadNext]_vars

(***************************************************************************)
(* Properties of the read results.                                         *)
(***************************************************************************)
\* The read of task t has returned the formatted page.
ReadSucceeded(t) ==
    /\ inv[t].tool = "read_documentation"
    /\ inv[t].pc = "returned"
    /\ inv[t].response.kind = "response"
    /\ inv[t].response.status_code < 400

\* The content of the page the read of task t received.
ContentOf(t) ==
    IF is_html_content(inv[t].response.text, inv[t].response.content_type)
    THEN extract_content_from_html(inv[t].response.text)
    ELSE inv[t].response.text

\* What follows the first n characters of s.
After(s, n) == SubSeq(s, n + 1, Len(s))

HasNotice(result) == Contains(result, S_CONTENT_TRUNCATED)

\* C13: for content of length L, 0 <= s < L and m >= 1, the result is the
\* header naming the url, then exactly the min(m, L - s) characters of the
\* content from position s on, then nothing or the continuation notice.
C13_WindowIsSlice ==
    \A t \in Tasks :
        LET content == ContentOf(t)
            L == Len(content)
            start == inv[t].start_index
            m == inv[t].max_length
            header == S_AWS_DOCUMENTATION_FROM \o inv[t].url \o <<":", "\n", "\n">>
            n == Min(m, L - start)
            rest == After(inv[t].result, Len(header) + n)
        IN  (ReadSucceeded(t) /\ start < L) =>
                /\ m >= 1
                /\ StartsWith(inv[t].result, header)
                /\ Len(inv[t].result) >= Len(header) + n
                /\ \A i \in 1..n : inv[t].result[Len(header) + i] = content[start + i]
                /\ rest = <<>> \/ StartsWith(rest, <<"\n", "\n">> \o S_CONTENT_TRUNCATED)

\* Of the content 'abcde' the window of 3 characters from index 1 was
\* returned: 'bcd'.
C13_Witness ==
    /\ ReadSucceeded("t1")
    /\ ContentOf("t1") = PAGE_PLAIN
    /\ inv["t1"].start_index = 1
    /\ inv["t1"].max_length = 3
    /\ StartsWith(inv["t1"].result,
                  S_AWS_DOCUMENTATION_FROM \o inv["t1"].url
                  \o <<":", "\n", "\n", "b", "c", "d", "\n">>)

\* The window reaches past the end of extracted content: 'b' of 'ab'.
C13_WitnessShort ==
    /\ ReadSucceeded("t1")
    /\ inv["t1"].response.text = PAGE_HTML
    /\ inv["t1"].start_index = 1
    /\ inv["t1"].max_length = 5
    /\ inv["t1"].result =
           S_AWS_DOCUMENTATION_FROM \o inv["t1"].url \o <<":", "\n", "\n", "b">>

\* C14: with s < L, the result carries the continuation notice if and only
\* if s + m < L, and the notice states the next start index s + m.
C14_NoticeIffMoreContent ==
    \A t \in Tasks :
        LET L == Len(ContentOf(t))
            start == inv[t].start_index
            m == inv[t].max_length
        IN  (ReadSucceeded(t) /\ start < L) =>
                /\ HasNotice(inv[t].result) <=> (start + m < L)
                /\ HasNotice(inv[t].result) =>
                       EndsWith(inv[t].result,
                                S_CONTENT_TRUNCATED \o str_int(start + m) \o S_TO_GET_MORE)

\* The window 1..3 of 5 characters came with the notice to continue at 4.
C14_Witness ==
    /\ ReadSucceeded("t1")
    /\ Len(ContentOf("t1")) = 5
    /\ inv["t1"].start_index = 1
    /\ inv["t1"].max_length = 3
    /\ EndsWith(inv["t1"].result, S_CONTENT_TRUNCATED \o <<"4">> \o S_TO_GET_MORE)

\* The window that ends exactly at the end of the content has no notice.
C14_WitnessExactEnd ==
    /\ ReadSucceeded("t1")
    /\ Len(ContentOf("t1")) = 5
    /\ inv["t1"].start_index = 2
    /\ inv["t1"].max_length = 3
    /\ ~HasNotice(inv["t1"].result)
    /\ EndsWith(inv["t1"].result, <<"\n", "c", "d", "e">>)

\* C15: with s >= L, an empty content included, the result is the header
\* and the no-more-content indicator: not an empty string, not an empty
\* window, and without continuation notice.
C15_NoMoreContent ==
    \A t \in Tasks :
        LET L == Len(ContentOf(t))
            header == S_AWS_DOCUMENTATION_FROM \o inv[t].url \o <<":", "\n", "\n">>
        IN  (ReadSucceeded(t) /\ inv[t].start_index >= L) =>
                /\ inv[t].result # <<>>
                /\ inv[t].result # header
                /\ inv[t].result = header \o NO_MORE_CONTENT
                /\ ~HasNotice(inv[t].result)

\* A read from index 6 of a content of 5 characters returned the indicator.
C15_Witness ==
    /\ ReadSucceeded("t1")
    /\ Len(ContentOf("t1")) = 5
    /\ inv["t1"].start_index = 6
    /\ EndsWith(inv["t1"].result, NO_MORE_CONTENT)

\* A read from index 0 of an empty content, and one from the index just
\* after the last character, returned the indicator.
C15_WitnessEmpty ==
    /\ ReadSucceeded("t1")
    /\ ContentOf("t1") = <<>>
    /\ inv["t1"].response.text # <<>>
    /\ inv["t1"].start_index = 0
    /\ EndsWith(inv["t1"].result, NO_MORE_CONTENT)

C15_WitnessAtEnd ==
    /\ ReadSucceeded("t1")
    /\ Len(ContentOf("t1")) = 5
    /\ inv["t1"].start_index = 5
    /\ EndsWith(inv["t1"].result, NO_MORE_CONTENT)

(***************************************************************************)
(* Properties of the requests.                                             *)
(***************************************************************************)
\* The invocation of task t was ended by read_documentation's validation.
RejectedByValidation(t) ==
    /\ inv[t].tool = "read_documentation"
    /\ inv[t].pc = "raised"
    /\ inv[t].exception.type = "ValueError"

\* C16: every invocation of the three tools sends at most one request:
\* none when the validation rejected the url, and otherwise exactly one,
\* also after a transport error, a timeout, a status of 400 or more or a
\* body that cannot be parsed, after which no request is in flight.
C16_OneRequestPerInvocation ==
    \A t \in Tasks :
        /\ inv[t].sent <= 1
        /\ inv[t].tool # "none" =>
               (inv[t].sent = IF RejectedByValidation(t) THEN 0 ELSE 1)
        /\ inv[t].response.kind # "none" =>
               /\ inv[t].sent = 1
               /\ inv[t].pc \notin {"get", "post"}
        /\ inv[t].errors # <<>> => inv[t].pc \in {"returned", "raised"}

\* A search whose request timed out has returned, having sent one request.
C16_Witness ==
    /\ inv["t1"].tool = "search_documentation"
    /\ inv["t1"].response = [kind |-> "error", message |-> ERR_TIMEOUT]
    /\ inv["t1"].pc = "returned"
    /\ inv["t1"].sent = 1
    /\ Len(inv["t1"].errors) = 1

\* A recommend answered with a body that is not JSON, and a read answered
\* with status 404, have returned after their one request.
C16_WitnessRecommend ==
    /\ inv["t1"].tool = "recommend"
    /\ inv["t1"].response.kind = "response"
    /\ inv["t1"].response.status_code = 200
    /\ inv["t1"].response.body.kind = "not_json"
    /\ inv["t1"].pc = "returned"
    /\ inv["t1"].sent = 1

C16_WitnessRead ==
    /\ inv["t1"].tool = "read_documentation"
    /\ inv["t1"].response.kind = "response"
    /\ inv["t1"].response.status_code = 404
    /\ inv["t1"].pc = "returned"
    /\ inv["t1"].sent = 1

\* The request of the invocation r carries the session token: in the
\* session parameter of its url and, for search and read, in the
\* X-MCP-Session-Id header.
CarriesSession(r, session) ==
    CASE r.tool = "search_documentation" ->
             /\ r.request.method = "POST"
             /\ r.request.url = SEARCH_API_URL \o S_SESSION \o session
             /\ r.request.session_header = session
      [] r.tool = "read_documentation" ->
             /\ r.request.method = "GET"
             /\ StartsWith(r.request.url, r.url \o S_SESSION \o session)
             /\ r.request.session_header = session
      [] r.tool = "recommend" ->
             /\ r.request.method = "GET"
             /\ EndsWith(r.request.url, S_AND_SESSION \o session)

\* C20: the session token never changes after the start of the process,
\* and every request sent by a tool invocation (the search POST, the page
\* GET, the recommendation GET) carries it, the search and read requests
\* in the X-MCP-Session-Id header as well.
C20_OneSessionToken ==
    [][/\ SESSION_UUID' = SESSION_UUID
       /\ \A t \in Tasks :
              inv'[t].sent > 0 => CarriesSession(inv'[t], SESSION_UUID')]_vars

\* After a search and a read were served, a recommendation GET is in flight
\* with the token of the process in its url.
C20_Witness ==
    /\ SEARCH_RESULT_CACHE # <<>>
    /\ inv["t1"].tool = "recommend"
    /\ inv["t1"].pc = "get"
    /\ inv["t1"].request.url =
           RECOMMENDATIONS_API_URL \o S_PATH \o URL_A \o S_AND_SESSION \o SESSION_UUID
    /\ SESSION_UUID \in SessionTokens

\* A search POST and a page GET in flight carry the token in the url and
\* in the header.
C20_WitnessSearch ==
    /\ inv["t1"].tool = "search_documentation"
    /\ inv["t1"].pc = "post"
    /\ inv["t1"].request.session_header = SESSION_UUID
    /\ EndsWith(inv["t1"].request.url, S_SESSION \o SESSION_UUID)

C20_WitnessRead ==
    /\ inv["t1"].tool = "read_documentation"
    /\ inv["t1"].pc = "get"
    /\ inv["t1"].query_id # None
    /\ inv["t1"].request.session_header = SESSION_UUID
    /\ Contains(inv["t1"].request.url, S_SESSION \o SESSION_UUID \o S_QUERY_ID)

(***************************************************************************)
(* Properties of the cache under the tools.                                *)
(***************************************************************************)
\* The step ends the search of task t by its insert and return.
SearchCompletes(t) ==
    /\ inv[t].tool = "search_documentation"
    /\ inv[t].pc = "close"
    /\ inv'[t].tool = "search_documentation"
    /\ inv'[t].pc = "returned"

\* C19: the cache changes only in the step in which a search_documentation
\* invocation inserts its batch: every step of a read_documentation
\* invocation (sent, soft-failed, or rejected by the validation) and of a
\* recommend invocation leaves the batches and their order as they were.
C19_OnlySearchMutatesCache ==
    [][/\ SEARCH_RESULT_CACHE' # SEARCH_RESULT_CACHE =>
              \E t \in Tasks :
                  /\ SearchCompletes(t)
                  /\ SEARCH_RESULT_CACHE'[1] = inv'[t].result
       /\ \A t \in Tasks :
              (inv'[t].tool \in {"read_documentation", "recommend"}
               /\ (inv'[t].pc # inv[t].pc \/ inv'[t].tool # inv[t].tool
                   \/ inv'[t].url # inv[t].url)) =>
                  SEARCH_RESULT_CACHE' = SEARCH_RESULT_CACHE]_vars

\* With three batches cached, a read of a cached url was sent with its
\* query id and failed softly.
C19_Witness ==
    /\ Len(SEARCH_RESULT_CACHE) = 3
    /\ inv["t1"].tool = "read_documentation"
    /\ inv["t1"].pc = "returned"
    /\ Truthy(inv["t1"].query_id)
    /\ Failed(inv["t1"].response)
    /\ ~BatchHasUrl(SEARCH_RESULT_CACHE[1], inv["t1"].url)

\* With batches cached, a read was rejected by the validation, and a
\* recommend has returned.
C19_WitnessRejected ==
    /\ SEARCH_RESULT_CACHE # <<>>
    /\ RejectedByValidation("t1")

C19_WitnessRecommend ==
    /\ SEARCH_RESULT_CACHE # <<>>
    /\ inv["t1"].tool = "recommend"
    /\ inv["t1"].pc = "returned"
    /\ inv["t1"].errors = <<>>

(***************************************************************************)
(* Concurrent invocations: the two tasks run searches and reads, each step *)
(* running from one suspension point of its coroutine to the next.         *)
(***************************************************************************)
ConcData ==
    {[queryId |-> QID_1, suggestions |-> <<Excerpt(URL_A), Excerpt(URL_C)>>],
     [queryId |-> QID_2, suggestions |-> <<Excerpt(URL_A)>>]}

ConcSearchAnswers ==
    {ApiResponse(200, JsonObject(d)) : d \in ConcData} \cup {ApiResponse(500, NotJson)}

ConcLimits == {2}

ConcReadUrls == {URL_A, URL_C}

ConcPageAnswers ==
    {PageResponse(200, PAGE_PLAIN, TEXT_PLAIN), [kind |-> "error", message |-> ERR_TIMEOUT]}

\* One step of a search or read of task t.
ConcServe(t) ==
    \/ \E phrase \in SearchPhrases, limit \in ConcLimits : SearchInvoke(t, phrase, limit)
    \/ \E answer \in ConcSearchAnswers : SearchResponse(t, answer)
    \/ SearchFinish(t)
    \/ \E url \in ConcReadUrls, m \in ReadMaxLengths : ReadInvoke(t, url, m, 0)
    \/ \E answer \in ConcPageAnswers : ReadResponse(t, answer)

ConcNext == \E t \in Tasks : ConcServe(t)

SpecConc == Init /\ [][ConcNext]_vars

\* Task t1 runs one search, invoked first; task t2 runs searches and reads
\* invoked after it, while it is in flight or after it has ended.
OverlapNext ==
    \/ /\ inv["t1"].tool = "none"
       /\ \E phrase \in SearchPhrases, limit \in ConcLimits :
              SearchInvoke("t1", phrase, limit)
    \/ \E answer \in ConcSearchAnswers : SearchResponse("t1", answer)
    \/ SearchFinish("t1")
    \/ /\ inv["t1"].tool # "none"
       /\ ConcServe("t2")

SpecOverlap == Init /\ [][OverlapNext]_vars

(***************************************************************************)
(* Properties of concurrent invocations.                                   *)
(***************************************************************************)
\* The complete result lists the searches of the concurrent tasks can build.
ConcBatches ==
    {BuildResults(d, limit, d["queryId"]) : d \in ConcData, limit \in ConcLimits}

\* C17: under every interleaving of concurrent searches and reads at their
\* suspension points, the cache holds at most 3 batches and each of them is
\* the complete result list of one search, never a part of one; and the
\* query id a read's lookup returned is that of a complete batch holding
\* the url, or None.
C17_CacheNeverTorn ==
    /\ Len(SEARCH_RESULT_CACHE) <= 3
    /\ \A i \in 1..Len(SEARCH_RESULT_CACHE) : SEARCH_RESULT_CACHE[i] \in ConcBatches
    /\ \A t \in Tasks :
           (inv[t].tool = "read_documentation" /\ inv[t].lookups > 0) =>
               \/ inv[t].query_id = None
               \/ \E b \in ConcBatches :
                      /\ BatchHasUrl(b, inv[t].url)
                      /\ inv[t].query_id = quote(FirstIdIn(b, inv[t].url))

\* With the cache full, a read that found its query id is in flight while
\* the search of the other task has its response and is about to insert a
\* batch of two results.
C17_Witness ==
    /\ Len(SEARCH_RESULT_CACHE) = 3
    /\ inv["t1"].tool = "read_documentation"
    /\ inv["t1"].pc = "get"
    /\ inv["t1"].query_id = QID_2
    /\ inv["t2"].tool = "search_documentation"
    /\ inv["t2"].pc = "close"
    /\ Len(Get(inv["t2"].data, "suggestions", <<>>)) = 2

\* Two searches have their responses at the same time, both about to
\* insert, with the cache full.
C17_WitnessTwoInserts ==
    /\ Len(SEARCH_RESULT_CACHE) = 3
    /\ \A t \in Tasks : inv[t].tool = "search_documentation" /\ inv[t].pc = "close"
    /\ inv["t1"].query_id # inv["t2"].query_id

\* C18: when a search completes, its batch becomes the most recent one of
\* the cache and the batches before it keep their order, whatever the order
\* in which the searches were invoked: a search invoked first and completed
\* last is the most recent, and a lookup made then for a url of its batch
\* returns its query id, also when a search invoked later holds the url.
C18_CompletionOrder ==
    [][\A t \in Tasks :
          /\ SearchCompletes(t) =>
                 /\ SEARCH_RESULT_CACHE'[1] = inv'[t].result
                 /\ Len(SEARCH_RESULT_CACHE') = Min(3, Len(SEARCH_RESULT_CACHE) + 1)
                 /\ \A i \in 2..Len(SEARCH_RESULT_CACHE') :
                        SEARCH_RESULT_CACHE'[i] = SEARCH_RESULT_CACHE[i - 1]
                 /\ \A u \in ConcReadUrls :
                        BatchHasUrl(inv'[t].result, u) =>
                            get_query_id_from_cache(SEARCH_RESULT_CACHE', u)
                                = quote(FirstIdIn(inv'[t].result, u))
          /\ (inv'[t].tool = "read_documentation" /\ inv'[t].pc = "get"
              /\ inv[t].pc # "get" /\ SEARCH_RESULT_CACHE # <<>>
              /\ BatchHasUrl(SEARCH_RESULT_CACHE[1], inv'[t].url)) =>
                 inv'[t].query_id = quote(FirstIdIn(SEARCH_RESULT_CACHE[1], inv'[t].url))]_vars

\* The search of t1 was invoked first and completed after a search of t2
\* that holds the same url with another query id: its batch is the most
\* recent, the batch of t2 comes after it, and the read t2 made then was
\* sent with the query id of t1's search.
C18_Witness ==
    /\ inv["t1"].tool = "search_documentation"
    /\ inv["t1"].pc = "returned"
    /\ inv["t1"].query_id = QID_1
    /\ Len(SEARCH_RESULT_CACHE) = 2
    /\ SEARCH_RESULT_CACHE[1] = inv["t1"].result
    /\ BatchHasUrl(SEARCH_RESULT_CACHE[2], URL_A)
    /\ FirstIdIn(SEARCH_RESULT_CACHE[2], URL_A) = QID_2
    /\ inv["t2"].tool = "read_documentation"
    /\ inv["t2"].url = URL_A
    /\ inv["t2"].pc = "get"
    /\ inv["t2"].query_id = QID_1

\* The search of t1, invoked first, is still in flight while the batch of a
\* search of t2 invoked after it is already in the cache.
C18_WitnessOvertaken ==
    /\ inv["t1"].tool = "search_documentation"
    /\ inv["t1"].pc \in {"post", "close"}
    /\ inv["t2"].tool = "search_documentation"
    /\ inv["t2"].pc = "returned"
    /\ SEARCH_RESULT_CACHE = <<inv["t2"].result>>
    /\ inv["t2"].result # <<>>

(***************************************************************************)
(* Further properties of the search results.                               *)
(***************************************************************************)
\* The text excerpt the j-th result of the search of task t was built from.
ExcerptOf(t, j) ==
    Suggestions(t)[inv[t].result[j].rank_order]["textExcerptSuggestion"]

\* The metadata of the text excerpt has a summary and no abstract.
OnlyMetadataSummary(text_suggestion) ==
    /\ Has(text_suggestion, "metadata")
    /\ Has(text_suggestion["metadata"], "summary")
    /\ ~Has(text_suggestion["metadata"], "seo_abstract")
    /\ ~Has(text_suggestion["metadata"], "abstract")

\* C22: the summary inside the metadata is never the snippet: when the
\* metadata has a summary and neither seo_abstract nor abstract, the
\* context is the top-level summary if present, else the suggestionBody,
\* else None; and whatever the metadata holds besides, the context is not
\* the metadata's summary.
C22_MetadataSummaryNeverUsed ==
    \A t \in Tasks :
        SearchSucceeded(t) =>
            \A j \in 1..Len(inv[t].result) :
                LET text_suggestion == ExcerptOf(t, j)
                    context == inv[t].result[j].context
                IN  /\ OnlyMetadataSummary(text_suggestion) =>
                           context = IF Has(text_suggestion, "summary")
                                     THEN text_suggestion["summary"]
                                     ELSE IF Has(text_suggestion, "suggestionBody")
                                     THEN text_suggestion["suggestionBody"]
                                     ELSE None
                    /\ (Has(text_suggestion, "metadata")
                        /\ Has(text_suggestion["metadata"], "summary")) =>
                           context # text_suggestion["metadata"]["summary"]

\* A search returned, for excerpts whose metadata has only a summary, the
\* top-level summary, the suggestion body, and no context at all.
C22_Witness ==
    /\ SearchSucceeded("t1")
    /\ Len(inv["t1"].result) = 8
    /\ \A j \in 5..8 : OnlyMetadataSummary(ExcerptOf("t1", j))
    /\ {inv["t1"].result[j].context : j \in 5..8} = {V_SUMMARY, V_BODY, None}
    /\ ExcerptOf("t1", 8)["metadata"]["summary"] = V_METADATA_SUMMARY

\* The j-th smallest element of a set of positions.
NthPosition(positions, j) ==
    CHOOSE p \in positions : Cardinality({q \in positions : q < p}) = j - 1

\* C23: a successful search returns exactly one result for each suggestion
\* with a text excerpt among the first `limit` suggestions of the response,
\* in response order, and nothing else: at most `limit` results, and none
\* for a suggestion at a position beyond `limit`, also when suggestions
\* before it were skipped.
C23_OneResultPerExcerptWithinLimit ==
    \A t \in Tasks :
        SearchSucceeded(t) =>
            /\ Len(inv[t].result) <= inv[t].limit
            /\ Len(inv[t].result) = Cardinality(ExcerptPositions(t))
            /\ \A j \in 1..Len(inv[t].result) :
                   LET p == NthPosition(ExcerptPositions(t), j)
                       text_suggestion == Suggestions(t)[p]["textExcerptSuggestion"]
                   IN  /\ p <= inv[t].limit
                       /\ inv[t].result[j].rank_order = p
                       /\ inv[t].result[j].url = Get(text_suggestion, "link", <<>>)
                       /\ inv[t].result[j].title = Get(text_suggestion, "title", <<>>)
                       /\ inv[t].result[j].query_id = inv[t].query_id

\* With limit 2, of the suggestions excerpt, other, excerpt only the first
\* was returned: the third is beyond the limit although the second was
\* skipped.
C23_Witness ==
    /\ SearchSucceeded("t1")
    /\ inv["t1"].limit = 2
    /\ Len(Suggestions("t1")) = 3
    /\ ~Has(Suggestions("t1")[2], "textExcerptSuggestion")
    /\ Has(Suggestions("t1")[3], "textExcerptSuggestion")
    /\ Len(inv["t1"].result) = 1
    /\ inv["t1"].result[1].url = URL_B

\* With limit 2, the first two of eight text excerpts were returned.
C23_WitnessTruncated ==
    /\ SearchSucceeded("t1")
    /\ inv["t1"].limit = 2
    /\ Len(Suggestions("t1")) = 8
    /\ Len(inv["t1"].result) = 2

(***************************************************************************)
(* Searches over responses whose snippet fields are present with an empty  *)
(* or null value.                                                          *)
(***************************************************************************)
\* A text excerpt with these top-level snippet fields and this metadata.
ValuedSuggestion(link, metadata, summary, suggestionBody) ==
    [textExcerptSuggestion |->
        [link |-> link, title |-> TITLE, metadata |-> metadata,
         summary |-> summary, suggestionBody |-> suggestionBody]]

PresenceData ==
    {[queryId |-> QID_1,
      suggestions |->
          <<ValuedSuggestion(URL_A, [seo_abstract |-> <<>>, abstract |-> V_ABSTRACT],
                             V_SUMMARY, V_BODY),
            ValuedSuggestion(URL_B, [seo_abstract |-> None, abstract |-> V_ABSTRACT],
                             V_SUMMARY, V_BODY),
            ValuedSuggestion(URL_C, [abstract |-> <<>>], V_SUMMARY, V_BODY),
            ValuedSuggestion(URL_A, [abstract |-> None], V_SUMMARY, V_BODY)>>],
     [queryId |-> QID_2,
      suggestions |->
          <<ValuedSuggestion(URL_A, EmptyDict, <<>>, V_BODY),
            ValuedSuggestion(URL_B, EmptyDict, None, V_BODY),
            [textExcerptSuggestion |->
                [link |-> URL_C, title |-> TITLE, suggestionBody |-> <<>>]],
            ValuedSuggestion(URL_C, [seo_abstract |-> V_SEO_ABSTRACT, abstract |-> None],
                             <<>>, V_BODY)>>]}

PresenceAnswers == {ApiResponse(200, JsonObject(d)) : d \in PresenceData}

PresenceLimits == {3, 4}

PresenceNext ==
    \/ \E phrase \in SearchPhrases, limit \in PresenceLimits :
           SearchInvoke("t1", phrase, limit)
    \/ \E answer \in PresenceAnswers : SearchResponse("t1", answer)
    \/ SearchFinish("t1")

SpecPresence == Init /\ [][PresenceNext]_vars

\* The candidate field is in the suggestion, whatever its value.
Present(c) == Has(c.in, c.key)

\* The positions of the candidates that are present.
PresentCandidates(text_suggestion) ==
    {i \in 1..4 : Present(Candidates(text_suggestion)[i])}

\* C29: the snippet is decided by which fields are present, not by their
\* values: the context is the value of the first candidate field that is
\* present (seo_abstract, abstract, summary, suggestionBody), also when
\* that value is empty or null and a field after it holds a text; it is
\* None when no candidate is present.
C29_SnippetByPresence ==
    \A t \in Tasks :
        SearchSucceeded(t) =>
            \A j \in 1..Len(inv[t].result) :
                LET c == Candidates(ExcerptOf(t, j))
                    present == PresentCandidates(ExcerptOf(t, j))
                IN  IF present = {}
                    THEN inv[t].result[j].context = None
                    ELSE LET first == CHOOSE i \in present : \A k \in present : i <= k
                         IN  inv[t].result[j].context = c[first].in[c[first].key]

\* An empty seo_abstract and a null seo_abstract were returned as context
\* although abstract, summary and body hold texts.
C29_Witness ==
    /\ SearchSucceeded("t1")
    /\ Len(inv["t1"].result) >= 2
    /\ inv["t1"].result[1].query_id = QID_1
    /\ ExcerptOf("t1", 1)["metadata"]["seo_abstract"] = <<>>
    /\ ExcerptOf("t1", 1)["metadata"]["abstract"] = V_ABSTRACT
    /\ inv["t1"].result[1].context = <<>>
    /\ ExcerptOf("t1", 2)["metadata"]["seo_abstract"] = None
    /\ inv["t1"].result[2].context = None

\* A null top-level summary was returned as no context although the body
\* holds a text.
C29_WitnessSummary ==
    /\ SearchSucceeded("t1")
    /\ Len(inv["t1"].result) >= 2
    /\ ExcerptOf("t1", 2)["summary"] = None
    /\ ExcerptOf("t1", 2)["suggestionBody"] = V_BODY
    /\ inv["t1"].result[2].context = None

(***************************************************************************)
(* How the invocations of search_documentation end                         *)
(***************************************************************************)
\* C24: search_documentation always ends by returning a list of
\* SearchResult and never by raising, whatever the remote call gave: a
\* transport failure, any status code, any body with a status below 400
\* (an object without queryId, without suggestions, with suggestions
\* lacking link and title, or a JSON body that is not an object).
C24_SearchNeverRaises ==
    \A t \in Tasks :
        inv[t].tool = "search_documentation" =>
            /\ inv[t].pc # "raised"
            /\ inv[t].pc = "returned" =>
                   \A i \in 1..Len(inv[t].result) : SearchResultValid(inv[t].result[i])

\* The search ended by AttributeError on a JSON body that is not an object.
C24_RaisedOnNonObject ==
    /\ inv["t1"].tool = "search_documentation"
    /\ inv["t1"].pc = "raised"
    /\ inv["t1"].exception.type = "AttributeError"
    /\ inv["t1"].response = ApiResponse(200, JsonArray)

\* The search ended by ValidationError on an object without queryId that
\* has a text excerpt.
C24_RaisedOnMissingQueryId ==
    /\ inv["t1"].tool = "search_documentation"
    /\ inv["t1"].pc = "raised"
    /\ inv["t1"].exception.type = "ValidationError"
    /\ inv["t1"].response = ApiResponse(200, JsonObject([suggestions |-> <<Excerpt(URL_C)>>]))

\* The step ends the search of task t by one of its soft failures.
SearchSoftFails(t) ==
    /\ inv[t].tool = "search_documentation"
    /\ inv[t].pc = "post"
    /\ inv'[t].tool = "search_documentation"
    /\ inv'[t].pc = "returned"

\* C25: a search that fails softly (transport error, status >= 400,
\* unparseable JSON) returns its one-element error list and leaves the
\* cache exactly as it was; the cache changes in exactly the steps in which
\* a search succeeds, and such a step inserts the returned list as one
\* batch at the front, discarding the batch at the back of a full cache.
C25_SoftFailLeavesCache ==
    [][\A t \in Tasks :
          /\ SearchSoftFails(t) =>
                 /\ Len(inv'[t].result) = 1
                 /\ Len(inv'[t].errors) = 1
                 /\ inv'[t].result[1].title = inv'[t].errors[1]
                 /\ SEARCH_RESULT_CACHE' = SEARCH_RESULT_CACHE
          /\ SearchCompletes(t) =>
                 SEARCH_RESULT_CACHE' =
                     <<inv'[t].result>>
                         \o SubSeq(SEARCH_RESULT_CACHE, 1,
                                   Min(Len(SEARCH_RESULT_CACHE), CACHE_MAXLEN - 1))
          /\ SEARCH_RESULT_CACHE' # SEARCH_RESULT_CACHE =>
                 \E u \in Tasks : SearchCompletes(u)]_vars

\* A search failed softly while three batches were cached, none of them
\* the error list.
C25_Witness ==
    /\ Len(SEARCH_RESULT_CACHE) = CACHE_MAXLEN
    /\ inv["t1"].tool = "search_documentation"
    /\ inv["t1"].pc = "returned"
    /\ inv["t1"].errors # <<>>
    /\ \A i \in 1..Len(SEARCH_RESULT_CACHE) : SEARCH_RESULT_CACHE[i] # inv["t1"].result

\* A search failed softly on an empty cache.
C25_WitnessEmpty ==
    /\ SEARCH_RESULT_CACHE = <<>>
    /\ inv["t1"].tool = "search_documentation"
    /\ inv["t1"].pc = "returned"
    /\ inv["t1"].errors # <<>>

\* The urls a cached batch can hold.
CachedUrls == {URL_A, URL_B, URL_C}

\* The cache holds a batch in which the scan finds this url.
Findable(cache, url) == get_query_id_from_cache(cache, url) # None

\* C28: a successful search whose list is empty (no suggestions, or none
\* with a text excerpt among the first `limit`) still inserts it as one
\* batch: the empty batch goes to the front, the others move one slot and
\* the batch at the back of a full cache is discarded.  So the third
\* successful empty search in a row leaves no url findable, whatever was
\* cached before.
C28_EmptyBatchTakesSlot ==
    [][\A t \in Tasks :
          (SearchCompletes(t) /\ inv'[t].result = <<>>) =>
              /\ Len(SEARCH_RESULT_CACHE') = Min(Len(SEARCH_RESULT_CACHE) + 1, CACHE_MAXLEN)
              /\ SEARCH_RESULT_CACHE'[1] = <<>>
              /\ \A i \in 2..Len(SEARCH_RESULT_CACHE') :
                     SEARCH_RESULT_CACHE'[i] = SEARCH_RESULT_CACHE[i - 1]
              /\ (/\ Len(SEARCH_RESULT_CACHE) >= 2
                  /\ SEARCH_RESULT_CACHE[1] = <<>>
                  /\ SEARCH_RESULT_CACHE[2] = <<>>) =>
                     \A url \in CachedUrls : ~Findable(SEARCH_RESULT_CACHE', url)]_vars

\* Two empty batches are in front of a batch in which a url is findable,
\* and a search that got an object without suggestions is about to finish.
C28_Witness ==
    /\ Len(SEARCH_RESULT_CACHE) = CACHE_MAXLEN
    /\ SEARCH_RESULT_CACHE[1] = <<>>
    /\ SEARCH_RESULT_CACHE[2] = <<>>
    /\ Findable(SEARCH_RESULT_CACHE, URL_A)
    /\ inv["t1"].tool = "search_documentation"
    /\ inv["t1"].pc = "close"
    /\ ~Has(inv["t1"].data, "suggestions")

\* A search returned an empty list for suggestions without text excerpt,
\* and the cache holds three empty batches.
C28_WitnessAllEmpty ==
    /\ SEARCH_RESULT_CACHE = <<<<>>, <<>>, <<>>>>
    /\ inv["t1"].tool = "search_documentation"
    /\ inv["t1"].pc = "returned"
    /\ inv["t1"].errors = <<>>
    /\ inv["t1"].result = <<>>
    /\ inv["t1"].response.body.value = [queryId |-> QID_UNSAFE,
                                        suggestions |-> <<OtherSuggestion, Excerpt(URL_A)>>]

(***************************************************************************)
(* Failures and the invocations after them                                 *)
(***************************************************************************)
\* The invocation of task t has ended in a failure: an exception was
\* raised (the validation of the url, or one no handler catches), or an
\* error was reported and the error value returned (transport error,
\* status >= 400, unparseable body).
EndedInFailure(t) ==
    \/ inv[t].exception.type # "none"
    \/ inv[t].pc = "returned" /\ inv[t].errors # <<>>

\* The step starts an invocation of task t or takes it to its end.
InvocationStep(t) ==
    \/ inv'[t].pc # inv[t].pc
    \/ inv'[t].tool # inv[t].tool
    \/ inv'[t].url # inv[t].url
    \/ inv'[t].response # inv[t].response

\* Each of the three tools takes a further invocation by task t.
AllToolsServed(t) ==
    /\ ENABLED (\E url \in ReadUrls, m \in ReadMaxLengths, s \in ReadStartIndexes :
                    ReadInvoke(t, url, m, s))
    /\ ENABLED (\E phrase \in SearchPhrases, limit \in SearchLimits :
                    SearchInvoke(t, phrase, limit))
    /\ ENABLED (\E url \in RecommendUrls : RecommendInvoke(t, url))

\* C21: no failure is fatal.  Every step of an invocation that ends in a
\* failure (its start, and the step in which the validation error, the
\* transport error, the status >= 400 or the unparseable response ends it)
\* leaves the cache and the session token as they were, and in the state
\* after the failure each of the three tools can be invoked again.
C21_NoFailureIsFatal ==
    [][\A t \in Tasks :
          /\ (InvocationStep(t) /\ ~SearchCompletes(t)) =>
                 /\ SEARCH_RESULT_CACHE' = SEARCH_RESULT_CACHE
                 /\ SESSION_UUID' = SESSION_UUID
          /\ (InvocationStep(t) /\ EndedInFailure(t)') =>
                 AllToolsServed(t)']_vars

\* With three batches cached, a read was rejected by the validation.
C21_Witness ==
    /\ Len(SEARCH_RESULT_CACHE) = CACHE_MAXLEN
    /\ RejectedByValidation("t1")
    /\ EndedInFailure("t1")
    /\ AllToolsServed("t1")

\* With batches cached, a search ended by a transport error, a read by a
\* status of 400 or more, a recommend by an unparseable body.
C21_WitnessSearch ==
    /\ SEARCH_RESULT_CACHE # <<>>
    /\ inv["t1"].tool = "search_documentation"
    /\ inv["t1"].response.kind = "error"
    /\ EndedInFailure("t1")

C21_WitnessRead ==
    /\ SEARCH_RESULT_CACHE # <<>>
    /\ inv["t1"].tool = "read_documentation"
    /\ inv["t1"].response.kind = "response"
    /\ inv["t1"].response.status_code >= 400
    /\ EndedInFailure("t1")

C21_WitnessRecommend ==
    /\ SEARCH_RESULT_CACHE # <<>>
    /\ inv["t1"].tool = "recommend"
    /\ inv["t1"].response = ApiResponse(200, NotJson)
    /\ EndedInFailure("t1")

(***************************************************************************)
(* A read while searches complete                                          *)
(***************************************************************************)
\* The step starts a read of task t that passes the validation.
ReadStarts(t) ==
    /\ inv[t].pc # "get"
    /\ inv'[t].tool = "read_documentation"
    /\ inv'[t].pc = "get"

\* The GET of the read of task t is in flight.
ReadInFlight(t) ==
    /\ inv[t].tool = "read_documentation"
    /\ inv[t].pc = "get"

\* The url of the GET of a read of `url` with this query id.
ReadRequestUrl(url, session, query_id) ==
    url \o S_SESSION \o session
    \o (IF Truthy(query_id) THEN S_QUERY_ID \o query_id ELSE <<>>)

\* C26: the lookup of a read is made before its GET is awaited.  The query
\* id of the request is the one the cache gives for the url in the state
\* in which the read starts; while the GET is in flight no step, of a
\* search that completes in particular, changes the request or the query
\* id of the read, no second lookup is made, and the result of the read is
\* decided by the answer to that request alone.
C26_LookupBeforeSuspension ==
    [][\A t \in Tasks :
          /\ ReadStarts(t) =>
                 /\ inv'[t].query_id =
                        get_query_id_from_cache(SEARCH_RESULT_CACHE, inv'[t].url)
                 /\ inv'[t].request.url =
                        ReadRequestUrl(inv'[t].url, SESSION_UUID, inv'[t].query_id)
                 /\ inv'[t].lookups = 1
          /\ ReadInFlight(t) =>
                 /\ inv'[t].request = inv[t].request
                 /\ inv'[t].query_id = inv[t].query_id
                 /\ inv'[t].lookups = inv[t].lookups
                 /\ inv'[t].pc = "returned" =>
                        inv'[t].result =
                            IF Failed(inv'[t].response)
                            THEN inv'[t].errors[1]
                            ELSE format_documentation_result(
                                     inv[t].url, ContentOf(t)',
                                     inv[t].start_index, inv[t].max_length)]_vars

\* While the GET of a read was in flight, a search of the other task has
\* inserted a newer match for the url: the cache now gives another query
\* id than the one of the request.
C26_Witness ==
    /\ ReadInFlight("t1")
    /\ Truthy(inv["t1"].query_id)
    /\ Findable(SEARCH_RESULT_CACHE, inv["t1"].url)
    /\ get_query_id_from_cache(SEARCH_RESULT_CACHE, inv["t1"].url) # inv["t1"].query_id
    /\ inv["t2"].tool = "search_documentation"
    /\ inv["t2"].pc = "returned"

\* The read has returned its page after the batch that gave its query id
\* was evicted by the searches of the other task.
C26_WitnessEvicted ==
    /\ ReadSucceeded("t1")
    /\ Truthy(inv["t1"].query_id)
    /\ ~Findable(SEARCH_RESULT_CACHE, inv["t1"].url)
    /\ inv["t1"].request.url =
           ReadRequestUrl(inv["t1"].url, SESSION_UUID, inv["t1"].query_id)

(***************************************************************************)
(* Lookups and the order of eviction                                       *)
(***************************************************************************)
\* The step is a call of get_query_id_from_cache.
LookupStep ==
    /\ inserted' = inserted
    /\ lastLookup'.url # None

\* The step is a call of add_search_result_cache_item.
AddStep == Len(inserted') = Len(inserted) + 1

\* The last call was a lookup that found its url in the batch at the back
\* of the full cache only, the oldest inserted of the three.
HitOldestOnly ==
    /\ Len(SEARCH_RESULT_CACHE) = CACHE_MAXLEN
    /\ lastLookup.url # None
    /\ lastLookup.result # None
    /\ BatchHasUrl(SEARCH_RESULT_CACHE[CACHE_MAXLEN], lastLookup.url)
    /\ \A i \in 1..(CACHE_MAXLEN - 1) :
           ~BatchHasUrl(SEARCH_RESULT_CACHE[i], lastLookup.url)

\* C27: get_query_id_from_cache only reads.  A lookup, hit or miss, leaves
\* the batches and their order as they were, so the batch evicted by an
\* insert into the full cache is the oldest inserted one, also when the
\* lookup just before found its url in that batch only: the two newer
\* batches move back one slot and the looked-up url is no longer found
\* unless the new batch holds it.
C27_LookupIsPureRead ==
    [][/\ LookupStep =>
              /\ SEARCH_RESULT_CACHE' = SEARCH_RESULT_CACHE
              /\ lastLookup'.result =
                     get_query_id_from_cache(SEARCH_RESULT_CACHE', lastLookup'.url)
       /\ (AddStep /\ HitOldestOnly) =>
              /\ SEARCH_RESULT_CACHE[CACHE_MAXLEN] = inserted[Len(inserted) - CACHE_MAXLEN + 1]
              /\ SEARCH_RESULT_CACHE'[2] = SEARCH_RESULT_CACHE[1]
              /\ SEARCH_RESULT_CACHE'[3] = SEARCH_RESULT_CACHE[2]
              /\ Findable(SEARCH_RESULT_CACHE', lastLookup.url)
                     <=> BatchHasUrl(SEARCH_RESULT_CACHE'[1], lastLookup.url)]_vars

\* A lookup has hit the oldest of three distinct batches only, and a
\* further insert can be made.
C27_Witness ==
    /\ HitOldestOnly
    /\ Len(inserted) < MaxInserts
    /\ SEARCH_RESULT_CACHE[1] # SEARCH_RESULT_CACHE[2]
    /\ SEARCH_RESULT_CACHE[2] # SEARCH_RESULT_CACHE[3]
    /\ SEARCH_RESULT_CACHE[1] # SEARCH_RESULT_CACHE[3]

\* A lookup has missed on a full cache.
C27_WitnessMiss ==
    /\ Len(SEARCH_RESULT_CACHE) = CACHE_MAXLEN
    /\ lastLookup.url # None
    /\ lastLookup.result = None
    /\ SEARCH_RESULT_CACHE[1] # <<>>

(***************************************************************************)
(* Paginated reading: a caller reads a page from start_index 0 and goes on *)
(* from the start index each continuation notice states.                   *)
(***************************************************************************)
\* 'abcdefghijkl'
PAGE_LONG == <<"a","b","c","d","e","f","g","h","i","j","k","l">>

PagingUrls == {URL_A, URL_B, URL_C, URL_A_UPPER}

PagingMaxLengths == {1, 2, 3, 5, 7}

\* The page the documentation site serves at the url, the same at every
\* call: 12, 5 and 0 characters of text, and markup around 2 characters.
PageAt(url) ==
    CASE url = URL_A -> PageResponse(200, PAGE_PLAIN, TEXT_PLAIN)
      [] url = URL_B -> PageResponse(200, PAGE_LONG, TEXT_PLAIN)
      [] url = URL_C -> PageResponse(200, PAGE_HTML, TEXT_HTML)
      [] OTHER -> PageResponse(200, PAGE_EMPTY, TEXT_PLAIN)

DecimalDigits == {"0","1","2","3","4","5","6","7","8","9"}

DigitValue(c) ==
    CASE c = "0" -> 0 [] c = "1" -> 1 [] c = "2" -> 2 [] c = "3" -> 3 [] c = "4" -> 4
      [] c = "5" -> 5 [] c = "6" -> 6 [] c = "7" -> 7 [] c = "8" -> 8 [] c = "9" -> 9

\* int(s) of a string of decimal digits
RECURSIVE int_str(_)
int_str(s) ==
    IF s = <<>> THEN 0
    ELSE 10 * int_str(SubSeq(s, 1, Len(s) - 1)) + DigitValue(s[Len(s)])

\* The decimal digits s ends with.
RECURSIVE TrailingDigits(_)
TrailingDigits(s) ==
    IF s = <<>> \/ s[Len(s)] \notin DecimalDigits THEN <<>>
    ELSE TrailingDigits(SubSeq(s, 1, Len(s) - 1)) \o <<s[Len(s)]>>

\* The start index a result's continuation notice states:
\* '...with start_index=<n> to get more content.</e>'
NoticeStart(result) ==
    int_str(TrailingDigits(SubSeq(result, 1, Len(result) - Len(S_TO_GET_MORE))))

\* The caller starts to read a page.
PagingStart(t) ==
    \E url \in PagingUrls, m \in PagingMaxLengths : ReadInvoke(t, url, m, 0)

\* The site answers the GET with the page of the url.
PagingAnswer(t) == ReadResponse(t, PageAt(inv[t].url))

\* The caller reads on, from the start index of the notice it got.
PagingContinue(t) ==
    /\ ReadSucceeded(t)
    /\ HasNotice(inv[t].result)
    /\ ReadInvoke(t, inv[t].url, inv[t].max_length, NoticeStart(inv[t].result))

PagingNext ==
    \/ PagingStart("t1")
    \/ PagingAnswer("t1")
    \/ PagingContinue("t1")

SpecPaging == Init /\ [][PagingNext]_vars

\* The part of the content a result returns: what is between the header
\* and the notice, and nothing when the result is the no-more-content
\* indicator.
SliceOf(url, result) ==
    LET body == After(result, Len(ResultHeader(url)))
    IN  IF HasNotice(result)
        THEN SubSeq(body, 1, Len(body) - Len(TruncationNotice(NoticeStart(result))))
        ELSE IF body = NO_MORE_CONTENT THEN <<>>
        ELSE body

\* The calls of a caller that starts at `start` and follows the notices:
\* the start index and the result of each, at most `calls` of them.
RECURSIVE Chain(_, _, _, _, _)
Chain(url, content, m, start, calls) ==
    IF calls = 0 THEN <<>>
    ELSE LET result == format_documentation_result(url, content, start, m)
         IN  <<[start |-> start, result |-> result]>>
             \o (IF HasNotice(result)
                 THEN Chain(url, content, m, NoticeStart(result), calls - 1)
                 ELSE <<>>)

\* The slices of the calls, one after the other.
RECURSIVE Slices(_, _)
Slices(url, chain) ==
    IF chain = <<>> THEN <<>>
    ELSE SliceOf(url, Head(chain).result) \o Slices(url, Tail(chain))

\* ceil(L / m)
CeilDiv(L, m) == (L + m - 1) \div m

\* C30: paginated reading is lossless and ends.  For the content of
\* length L of a page and a fixed max_length m >= 1, the calls that start
\* at start_index 0 and follow the notices are those of Chain: each call
\* the caller has made is one of them, each starts where the slice before
\* it ended, every call but the last carries the notice, the slices
\* concatenate to exactly the content, and the last call, the
\* ceil(L / m)-th when L > 0, returns a result without notice.
C30_PagingLossless ==
    \A t \in Tasks :
        ReadSucceeded(t) =>
            LET url == inv[t].url
                content == ContentOf(t)
                L == Len(content)
                m == inv[t].max_length
                chain == Chain(url, content, m, 0, L + 2)
                n == Len(chain)
            IN  /\ m >= 1
                /\ \E i \in 1..n : /\ chain[i].start = inv[t].start_index
                                    /\ chain[i].result = inv[t].result
                /\ \A i \in 1..(n - 1) :
                       /\ HasNotice(chain[i].result)
                       /\ chain[i + 1].start =
                              chain[i].start + Len(SliceOf(url, chain[i].result))
                       /\ chain[i + 1].start > chain[i].start
                /\ ~HasNotice(chain[n].result)
                /\ Slices(url, chain) = content
                /\ L > 0 => n = CeilDiv(L, m)
                /\ ~HasNotice(inv[t].result) =>
                       /\ inv[t].result = chain[n].result
                       /\ L > 0 => inv[t].start_index = (CeilDiv(L, m) - 1) * m

\* The third call of a caller reading 12 characters by 5 has returned the
\* last 2 of them, from start index 10, without notice.
C30_Witness ==
    /\ ReadSucceeded("t1")
    /\ ContentOf("t1") = PAGE_LONG
    /\ inv["t1"].max_length = 5
    /\ inv["t1"].start_index = 10
    /\ ~HasNotice(inv["t1"].result)
    /\ SliceOf(inv["t1"].url, inv["t1"].result) = <<"k", "l">>

\* The twelfth call of a caller reading 12 characters one by one.
C30_WitnessOneByOne ==
    /\ ReadSucceeded("t1")
    /\ ContentOf("t1") = PAGE_LONG
    /\ inv["t1"].max_length = 1
    /\ inv["t1"].start_index = 11
    /\ ~HasNotice(inv["t1"].result)

\* A call in the middle: the second of a caller reading 5 characters by 2
\* has returned 'cd' and the notice to go on from 4.
C30_WitnessMiddle ==
    /\ ReadSucceeded("t1")
    /\ ContentOf("t1") = PAGE_PLAIN
    /\ inv["t1"].max_length = 2
    /\ inv["t1"].start_index = 2
    /\ NoticeStart(inv["t1"].result) = 4
    /\ SliceOf(inv["t1"].url, inv["t1"].result) = <<"c", "d">>

====
